---- MODULE Spec2Model ----
(***************************************************************************)
(* A model of the request router of composio-agno-fastapi:                 *)
(*   - the model-strategy classifier and team assembler of the CLI         *)
(*     (ubik-cli-standalone/ubik_agno.py, cli.py, v1/ubik.py),             *)
(*   - the keyword classifier, connection gate and run supervisor of the   *)
(*     FastAPI service (fastapi-server/src/app/services/composio.py),      *)
(*   - the connection manager and retrying runner of agno2.py.             *)
(***************************************************************************)
EXTENDS Integers, Sequences, FiniteSets, TLC

(***************************************************************************)
(* Bounds of the model.                                                    *)
(***************************************************************************)
\* longest "agents" array the selector model is taken to reply with
MaxAgents == 2
\* most fragments a generated query is made of
MaxFrags == 2
\* most connection records the tool-connector service holds for an entity
MaxConns == 2
\* most chat requests that run to the end
MaxRuns == 1
\* most run_with_retry calls
MaxCalls == 2
\* most chat requests of one user that run to the end, one after the other
MaxHistRuns == 7
\* server processes sharing the database, and most chat requests they serve
NumWorkers == 2
MaxConcRuns == 2
\* most chat requests served while requests may be cancelled
MaxCancelRuns == 2
\* most pieces a generated response text is made of
MaxPieces == 5
\* most chunks of a generated event stream
MaxChunks == 2
\* connection records the connector lists for an entity
MaxRecords == 2
\* most words of a generated task string
MaxWords == 2
\* most calls of update_state on one SharedContext
MaxTransitions == 2
\* examples main runs
MainTasks == 2

VARIABLES
    \* ---- CLI: smart_agent_selector / create_dynamic_team (ubik_agno.py)
    user_request,      \* the request string handed to the CLI
    reply,             \* response of the selector model to the last request
    selection,         \* what smart_agent_selector returned for it
    needed_agents,     \* create_dynamic_team: selection.get("agents", [])
    needs_filesystem,  \* create_dynamic_team: truthiness of selection.get("needs_filesystem", False)
    members,           \* members of the Team that create_dynamic_team built
    cli,               \* where the CLI is: idle, or how its last call ended
    \* ---- keyword strategy: ComposioService.check_required_apps, as a function
    kw_query,          \* the query handed to the classifier
    kw_required,       \* required_apps as the classifier built it
    kw_done,           \* the classifier has run
    \* ---- FastAPI service: ComposioService and its routes
    db,                \* the users table: one row per email
    ext,               \* the tool-connector service: each entity's connection records
    toolset_entity_id, \* self.toolset.entity_id of the one ComposioService
    ca,                \* the connect request being served, with its response
    pq,                \* the chat request being served: where process_query is
    runs,              \* chat requests that wrote the history so far
    \* ---- agno2.py: EnhancedTeamRunner
    rr,                \* the run_with_retry call in progress, with its outcome
    conversation_history, \* self.conversation_history of the runner
    calls,             \* run_with_retry calls that have ended
    \* ---- agno2.py: EnhancedComposioManager
    mc,                \* the connect_app call in progress, with its result
    mgr_conns,         \* the connection records of the manager's entity
    mgr_connected_apps, \* self.connected_apps: app name -> connection id
    mgr_prev,          \* the connect_app call that returned last
    \* ---- FastAPI service run as several server processes on one database
    wq,                \* the chat request each server process is serving
    wtoolset,          \* self.toolset.entity_id of each process's ComposioService
    \* ---- clean_response and the stream loop on their own
    cr_text,           \* a text handed to clean_response
    cr_out,            \* what clean_response returned for it
    cr_done,           \* clean_response has run
    st_stream,         \* an event stream of team.run
    st_out,            \* response and tool_calls the stream loop made of it
    st_done,           \* the stream loop has run
    \* ---- the connection helpers of the CLIs and of pythonkit-agno, one call each
    k_conns,           \* the connection records the connector lists for the entity
    k_call,            \* the helper that was called, with what it requested and reported
    \* ---- the CLIs serving one query: cli.py process_query, create_dynamic_team of ubik_agno.py and of v1/ubik.py
    cq,                \* the query being served: the classification requests made, the selection reported, the teams run
    \* ---- ago_dynamic_team_builder.py: AgentPool, DynamicTeamBuilder and main
    ap,                \* the AgentPool: the keys of normal_agents and mcp_agents, and mcp_contexts in insertion order
    mn,                \* where main is, the MCP contexts entered and exited, and the last team asked for
    \* ---- services/composio.py: SharedContext
    sc                 \* a SharedContext: state, current_agent, last_action and task.transitions

selVars == <<user_request, reply, selection, needed_agents, needs_filesystem, members, cli>>

kwVars == <<kw_query, kw_required, kw_done>>

svcVars == <<db, ext, toolset_entity_id, ca, pq, runs>>

runVars == <<rr, conversation_history, calls>>

mgrVars == <<mc, mgr_conns, mgr_connected_apps, mgr_prev>>

wkVars == <<wq, wtoolset>>

crVars == <<cr_text, cr_out, cr_done>>

stVars == <<st_stream, st_out, st_done>>

knVars == <<k_conns, k_call>>

cqVars == <<cq>>

apVars == <<ap, mn>>

scVars == <<sc>>

vars == <<selVars, kwVars, svcVars, runVars, mgrVars, wkVars, crVars, stVars, knVars, cqVars, apVars, scVars>>

notSel == <<kwVars, svcVars, runVars, mgrVars, wkVars, crVars, stVars, knVars, cqVars, apVars, scVars>>
notKw  == <<selVars, svcVars, runVars, mgrVars, wkVars, crVars, stVars, knVars, cqVars, apVars, scVars>>
notSvc == <<selVars, kwVars, runVars, mgrVars, wkVars, crVars, stVars, knVars, cqVars, apVars, scVars>>
notRun == <<selVars, kwVars, svcVars, mgrVars, wkVars, crVars, stVars, knVars, cqVars, apVars, scVars>>
notMgr == <<selVars, kwVars, svcVars, runVars, wkVars, crVars, stVars, knVars, cqVars, apVars, scVars>>
\* what the server processes leave alone: they share the database, the
\* connector and the count of written entries
notWk  == <<selVars, kwVars, runVars, mgrVars, toolset_entity_id, ca, pq, crVars, stVars, knVars, cqVars, apVars, scVars>>
notCr  == <<selVars, kwVars, svcVars, runVars, mgrVars, wkVars, stVars, knVars, cqVars, apVars, scVars>>
notSt  == <<selVars, kwVars, svcVars, runVars, mgrVars, wkVars, crVars, knVars, cqVars, apVars, scVars>>
notKn == <<selVars, kwVars, svcVars, runVars, mgrVars, wkVars, crVars, stVars, cqVars, apVars, scVars>>
notCq == <<selVars, kwVars, svcVars, runVars, mgrVars, wkVars, crVars, stVars, knVars, apVars, scVars>>
notAp == <<selVars, kwVars, svcVars, runVars, mgrVars, wkVars, crVars, stVars, knVars, cqVars, scVars>>
notSc == <<selVars, kwVars, svcVars, runVars, mgrVars, wkVars, crVars, stVars, knVars, cqVars, apVars>>

(***************************************************************************)
(* JSON text and json.loads.  A text is a sequence of tokens; json_loads   *)
(* is a recursive-descent parser over it, so that a reply is valid JSON    *)
(* only if the parser accepts it.                                          *)
(***************************************************************************)
P(c)  == [k |-> "p", v |-> c]     \* a punctuation token { } [ ] : ,
S(s)  == [k |-> "s", v |-> s]     \* a string literal "s"
L(w)  == [k |-> "l", v |-> w]     \* one of the literals true false null
W(w)  == [k |-> "w", v |-> w]     \* any other text (prose, a code fence)
WS    == [k |-> "ws", v |-> " "]  \* white space

JStr(s)        == [t |-> "str", s |-> s]
JBool(b)       == [t |-> "bool", b |-> b]
JNull          == [t |-> "null"]
JArr(items)    == [t |-> "arr", items |-> items]
JObj(keys, vs) == [t |-> "obj", keys |-> keys, vals |-> vs]

Fail      == [ok |-> FALSE]
Ok(v, n)  == [ok |-> TRUE, val |-> v, next |-> n]

\* dict[key] = value: a repeated key keeps its place and takes the last value
DictSet(keys, vs, key, val) ==
    IF \E i \in 1..Len(keys) : keys[i] = key
    THEN [ks |-> keys,
          vs |-> [i \in 1..Len(vs) |-> IF keys[i] = key THEN val ELSE vs[i]]]
    ELSE [ks |-> Append(keys, key), vs |-> Append(vs, val)]

RECURSIVE ParseValue(_, _), ParseElems(_, _, _), ParseMembers(_, _, _, _)

ParseValue(toks, i) ==
    IF i > Len(toks) THEN Fail
    ELSE LET tk == toks[i] IN
         CASE tk.k = "s" -> Ok(JStr(tk.v), i + 1)
           [] tk.k = "l" -> Ok(IF tk.v = "null" THEN JNull ELSE JBool(tk.v = "true"), i + 1)
           [] tk = P("[") ->
                IF i + 1 <= Len(toks) /\ toks[i + 1] = P("]")
                THEN Ok(JArr(<<>>), i + 2)
                ELSE ParseElems(toks, i + 1, <<>>)
           [] tk = P("{") ->
                IF i + 1 <= Len(toks) /\ toks[i + 1] = P("}")
                THEN Ok(JObj(<<>>, <<>>), i + 2)
                ELSE ParseMembers(toks, i + 1, <<>>, <<>>)
           [] OTHER -> Fail

ParseElems(toks, i, acc) ==
    LET r == ParseValue(toks, i) IN
    IF ~r.ok \/ r.next > Len(toks) THEN Fail
    ELSE IF toks[r.next] = P(",") THEN ParseElems(toks, r.next + 1, Append(acc, r.val))
    ELSE IF toks[r.next] = P("]") THEN Ok(JArr(Append(acc, r.val)), r.next + 1)
    ELSE Fail

ParseMembers(toks, i, keys, vs) ==
    IF i + 1 > Len(toks) \/ toks[i].k # "s" \/ toks[i + 1] # P(":") THEN Fail
    ELSE LET r == ParseValue(toks, i + 2) IN
         IF ~r.ok \/ r.next > Len(toks) THEN Fail
         ELSE LET d == DictSet(keys, vs, toks[i].v, r.val) IN
              IF toks[r.next] = P(",") THEN ParseMembers(toks, r.next + 1, d.ks, d.vs)
              ELSE IF toks[r.next] = P("}") THEN Ok(JObj(d.ks, d.vs), r.next + 1)
              ELSE Fail

\* str.strip(): leading and trailing white space removed
RECURSIVE strip(_)
strip(toks) ==
    IF toks = <<>> THEN toks
    ELSE IF Head(toks) = WS THEN strip(Tail(toks))
    ELSE IF toks[Len(toks)] = WS THEN strip(SubSeq(toks, 1, Len(toks) - 1))
    ELSE toks

\* json.loads(text): the value, or a JSONDecodeError (ok = FALSE).  White
\* space between tokens is insignificant; text after the value is an error.
json_loads(toks) ==
    LET t == SelectSeq(toks, LAMBDA x : x # WS)
        r == ParseValue(t, 1)
    IN  IF r.ok /\ r.next = Len(t) + 1 THEN [ok |-> TRUE, val |-> r.val] ELSE Fail

\* the text of a JSON value (used to build the replies of the selector model)
RECURSIVE Render(_), RenderItems(_, _), RenderPairs(_, _, _)
Render(v) ==
    CASE v.t = "str"  -> <<S(v.s)>>
      [] v.t = "bool" -> <<L(IF v.b THEN "true" ELSE "false")>>
      [] v.t = "null" -> <<L("null")>>
      [] v.t = "arr"  -> <<P("[")>> \o RenderItems(v.items, 1) \o <<P("]")>>
      [] v.t = "obj"  -> <<P("{")>> \o RenderPairs(v.keys, v.vals, 1) \o <<P("}")>>

RenderItems(items, i) ==
    IF i > Len(items) THEN <<>>
    ELSE Render(items[i]) \o (IF i < Len(items) THEN <<P(",")>> ELSE <<>>)
         \o RenderItems(items, i + 1)

RenderPairs(keys, vs, i) ==
    IF i > Len(keys) THEN <<>>
    ELSE <<S(keys[i]), P(":")>> \o Render(vs[i])
         \o (IF i < Len(keys) THEN <<P(","), WS>> ELSE <<>>)
         \o RenderPairs(keys, vs, i + 1)

(***************************************************************************)
(* Text.  A text is a sequence of characters, so that `in` (substring) and *)
(* str.lower() are computed and not assumed.                               *)
(***************************************************************************)
UpperCase == <<"A", "B", "C", "D", "E", "F", "G", "H", "I", "J", "K", "L", "M", "N", "O", "P", "Q", "R", "S", "T", "U", "V", "W", "X", "Y", "Z">>
LowerCase == <<"a", "b", "c", "d", "e", "f", "g", "h", "i", "j", "k", "l", "m", "n", "o", "p", "q", "r", "s", "t", "u", "v", "w", "x", "y", "z">>

LowerChar(c) ==
    IF \E i \in 1..Len(UpperCase) : UpperCase[i] = c
    THEN LowerCase[CHOOSE i \in 1..Len(UpperCase) : UpperCase[i] = c]
    ELSE c

\* str.lower()
lower(text) == [i \in 1..Len(text) |-> LowerChar(text[i])]

\* word in text
IsSubstr(word, text) ==
    \E i \in 0..(Len(text) - Len(word)) : \A j \in 1..Len(word) : text[i + j] = word[j]

\* any(word in text for word in words)
AnyIn(words, text) == \E k \in 1..Len(words) : IsSubstr(words[k], text)

(***************************************************************************)
(* The keyword strategy of ComposioService.check_required_apps.            *)
(***************************************************************************)
email_words     == <<<<"e", "m", "a", "i", "l">>, <<"m", "a", "i", "l">>, <<"g", "m", "a", "i", "l">>>>
send_words      == <<<<"s", "e", "n", "d">>, <<"d", "r", "a", "f", "t">>>>
calendar_words  == <<<<"c", "a", "l", "e", "n", "d", "a", "r">>, <<"s", "c", "h", "e", "d", "u", "l", "e">>, <<"e", "v", "e", "n", "t">>>>
weather_words   == <<<<"w", "e", "a", "t", "h", "e", "r">>, <<"t", "e", "m", "p", "e", "r", "a", "t", "u", "r", "e">>, <<"f", "o", "r", "e", "c", "a", "s", "t">>>>
drive_words     == <<<<"d", "r", "i", "v", "e">>, <<"g", "o", "o", "g", "l", "e", "d", "r", "i", "v", "e">>, <<"c", "r", "e", "a", "t", "e", " ", "f", "i", "l", "e">>,
                     <<"s", "a", "v", "e", " ", "f", "i", "l", "e">>, <<"u", "p", "l", "o", "a", "d">>, <<"d", "o", "w", "n", "l", "o", "a", "d">>,
                     <<"d", "o", "c", "u", "m", "e", "n", "t">>, <<"f", "o", "l", "d", "e", "r">>>>
drive_phrases   == <<<<"s", "a", "v", "e", " ", "i", "t", " ", "i", "n">>, <<"s", "a", "v", "e", " ", "i", "n">>, <<"c", "r", "e", "a", "t", "e", " ", "a", " ", "f", "i", "l", "e">>>>

\* required_apps without query.lower()
required_apps_case_sensitive(query) ==
    (IF AnyIn(email_words, query) \/ AnyIn(send_words, query) THEN <<"gmail">> ELSE <<>>)
    \o (IF AnyIn(calendar_words, query) THEN <<"googlecalendar">> ELSE <<>>)
    \o (IF AnyIn(weather_words, query) THEN <<"weathermap">> ELSE <<>>)
    \o (IF AnyIn(drive_words, query) \/ AnyIn(drive_phrases, query)
        THEN <<"googledrive">> ELSE <<>>)

\* the list required_apps that check_required_apps builds from the query
required_apps(query) ==
    LET query_lower == lower(query) IN
    (IF AnyIn(email_words, query_lower) \/ AnyIn(send_words, query_lower)
     THEN <<"gmail">> ELSE <<>>)
    \o (IF AnyIn(calendar_words, query_lower) THEN <<"googlecalendar">> ELSE <<>>)
    \o (IF AnyIn(weather_words, query_lower) THEN <<"weathermap">> ELSE <<>>)
    \o (IF AnyIn(drive_words, query_lower) \/ AnyIn(drive_phrases, query_lower)
        THEN <<"googledrive">> ELSE <<>>)

\* queries: up to MaxFrags fragments written one after the other, and the
\* two queries the specification names
Fragments ==
    {<<"w", "e", "a", "t", "h", "e", "r">>, <<"W", "e", "a", "t", "h", "e", "r">>, <<"E">>, <<"m", "a", "i", "l">>, <<"s", "e", "n", "d">>, <<"p", "r">>,
     <<"e", "v", "e", "n", "t">>, <<" ">>, <<"h", "e", "l", "l", "o">>, <<"s", "a", "v", "e", " ">>, <<"i", "n">>, <<"d", "r", "i", "v", "e">>}

RECURSIVE Concat(_)
Concat(frags) == IF frags = <<>> THEN <<>> ELSE Head(frags) \o Concat(Tail(frags))

WeatherQuery  == <<"w", "e", "a", "t", "h", "e", "r">>
ScenarioQuery == <<"c", "h", "e", "c", "k", " ", "m", "y", " ", "e", "m", "a", "i", "l", "s", " ", "a", "n", "d", " ", "t", "e", "l", "l", " ", "m", "e", " ", "t", "h", "e", " ", "w", "e", "a", "t", "h", "e", "r">>

KwQueries ==
    {Concat(fs) : fs \in UNION {[1..n -> Fragments] : n \in 0..MaxFrags}}
    \cup {WeatherQuery, ScenarioQuery}

KwInit0 ==
    /\ kw_query = <<>>
    /\ kw_required = <<>>
    /\ kw_done = FALSE

KwInitAny ==
    /\ kw_query \in KwQueries
    /\ kw_required = <<>>
    /\ kw_done = FALSE

\* check_required_apps builds required_apps from the query
Classify ==
    /\ ~kw_done
    /\ kw_required' = required_apps(kw_query)
    /\ kw_done' = TRUE
    /\ UNCHANGED kw_query

(***************************************************************************)
(* The FastAPI service: users, the connection gate and connect_app.        *)
(***************************************************************************)
Emails     == {"ann@x.io", "bob@x.io"}
\* the emails POST /users/ is called for
Registered == {"ann@x.io"}

NoRow == [exists |-> FALSE, entity_id |-> "", connected_apps |-> <<>>, chat_history |-> <<>>]

\* app names clients send to POST /users/{email}/connect
ConnectNames == {"gmail", "Gmail", "weathermap"}

\* str.lower() of an app name
name_lower(name) == IF name = "Gmail" THEN "gmail" ELSE name

oauth_apps == <<"gmail", "googlecalendar", "googledrive", "notion", "slack">>

is_oauth_app(app_name) ==
    \E i \in 1..Len(oauth_apps) : name_lower(oauth_apps[i]) = name_lower(app_name)

\* statuses connect_app takes for an established connection
ActiveLiterals == {"active", "ACTIVE", "connected", "CONNECTED"}

\* app_name.lower() not in [x.lower() for x in user.connected_apps]: append it
with_app(connected_apps, app_name) ==
    IF \E i \in 1..Len(connected_apps) : name_lower(connected_apps[i]) = name_lower(app_name)
    THEN connected_apps
    ELSE Append(connected_apps, name_lower(app_name))

NoUrl == "None"
NoId  == 0

\* ComposioService.connect_app for an existing user, from the entity's
\* connection records and from what the tool-connector service does on this
\* call: get_entity / get_connections succeed or raise, each parameter
\* convention of initiate_connection is accepted or raises, the connection
\* request carries a redirectUrl / a connectedAccountId or not.
connect_app(user, app_name, conns, getEntityOk, getConnsOk, conv1Ok, conv2Ok, hasUrl, hasId) ==
    LET active == {i \in 1..Len(conns) :
                      /\ name_lower(conns[i].appName) = name_lower(app_name)
                      /\ conns[i].status \in ActiveLiterals}
        first  == CHOOSE i \in active : \A j \in active : i <= j
        checks == IF getEntityOk THEN <<"get_entity", "get_connections">> ELSE <<"get_entity">>
        tries  == IF conv1Ok THEN <<"initiate_connection(app_name)">>
                  ELSE <<"initiate_connection(app_name)", "initiate_connection(appName)">>
        url    == IF hasUrl THEN "redirectUrl" ELSE NoUrl
        id     == IF hasId THEN Len(conns) + 1 ELSE NoId
    IN  IF ~is_oauth_app(app_name)
        THEN [result |-> [success |-> TRUE, already_connected |-> TRUE,
                          message |-> "Auto-connected", connection_id |-> NoId,
                          auth_url |-> NoUrl],
              connected_apps |-> with_app(user.connected_apps, app_name),
              conns |-> conns, calls |-> <<>>]
        ELSE IF getEntityOk /\ getConnsOk /\ active # {}
        THEN [result |-> [success |-> TRUE, already_connected |-> TRUE,
                          message |-> "Already connected", connection_id |-> first,
                          auth_url |-> NoUrl],
              connected_apps |-> with_app(user.connected_apps, app_name),
              conns |-> conns, calls |-> checks]
        ELSE IF ~getEntityOk
        \* entity was never bound: both initiate attempts raise NameError
        THEN [result |-> [success |-> FALSE, already_connected |-> FALSE,
                          message |-> "Could not connect", connection_id |-> NoId,
                          auth_url |-> NoUrl],
              connected_apps |-> user.connected_apps,
              conns |-> conns, calls |-> checks]
        ELSE IF ~conv1Ok /\ ~conv2Ok
        THEN [result |-> [success |-> FALSE, already_connected |-> FALSE,
                          message |-> "Could not connect", connection_id |-> NoId,
                          auth_url |-> NoUrl],
              connected_apps |-> user.connected_apps,
              conns |-> conns, calls |-> checks \o tries]
        ELSE [result |-> [success |-> TRUE, already_connected |-> FALSE,
                          message |-> "Connection initiated", connection_id |-> id,
                          auth_url |-> url],
              connected_apps |-> IF hasUrl /\ hasId
                                 THEN with_app(user.connected_apps, app_name)
                                 ELSE user.connected_apps,
              conns |-> Append(conns, [appName |-> name_lower(app_name), status |-> "INITIATED"]),
              calls |-> checks \o tries]

CaIdle == [pc |-> "idle"]
PqIdle == [pc |-> "idle"]

ServerIdle == ca.pc = "idle" /\ pq.pc = "idle"

\* POST /users/: ComposioService.create_user, User.save
create_user(emails) ==
    /\ \E email \in emails :
         /\ ~db[email].exists
         /\ db' = [db EXCEPT ![email] = [exists |-> TRUE, entity_id |-> email,
                                         connected_apps |-> <<>>, chat_history |-> <<>>]]
    /\ UNCHANGED <<ext, toolset_entity_id, ca, pq, runs>>

CreateUser ==
    /\ ServerIdle
    /\ create_user(Registered)
    /\ UNCHANGED notSvc

\* POST /users/{email}/connect: the route and ComposioService.connect_app
ConnectApp ==
    /\ ServerIdle
    /\ \E email \in Emails, app_name \in ConnectNames :
         IF ~db[email].exists
         THEN /\ ca' = [pc |-> "done", email |-> email, app_name |-> app_name,
                        status |-> 404, detail |-> "User not found"]
              /\ UNCHANGED <<db, ext, toolset_entity_id>>
         ELSE \E getEntityOk \in BOOLEAN, getConnsOk \in BOOLEAN, conv1Ok \in BOOLEAN,
                 conv2Ok \in BOOLEAN, hasUrl \in BOOLEAN, hasId \in BOOLEAN :
              LET r == connect_app(db[email], app_name, ext[db[email].entity_id],
                                   getEntityOk, getConnsOk, conv1Ok, conv2Ok, hasUrl, hasId)
              IN  /\ Len(r.conns) <= MaxConns
                  /\ db' = [db EXCEPT ![email].connected_apps = r.connected_apps]
                  /\ ext' = [ext EXCEPT ![db[email].entity_id] = r.conns]
                  /\ toolset_entity_id' = IF is_oauth_app(app_name)
                                           THEN db[email].entity_id
                                           ELSE toolset_entity_id
                  /\ ca' = [pc |-> "done", email |-> email, app_name |-> app_name,
                            status |-> 200, result |-> r.result, calls |-> r.calls]
    /\ UNCHANGED <<pq, runs>>
    /\ UNCHANGED notSvc

\* the response of the connect request is delivered
ConnectReturn ==
    /\ ca.pc = "done"
    /\ ca' = CaIdle
    /\ UNCHANGED <<db, ext, toolset_entity_id, pq, runs>>
    /\ UNCHANGED notSvc

\* the user finishes the authorization flow of an initiated connection
ExtAuthorize ==
    /\ \E e \in Emails :
       \E i \in 1..Len(ext[e]) :
         /\ ext[e][i].status = "INITIATED"
         /\ ext' = [ext EXCEPT ![e][i].status = "ACTIVE"]
    /\ UNCHANGED <<db, toolset_entity_id, ca, pq, runs>>
    /\ UNCHANGED notSvc

(***************************************************************************)
(* The FastAPI service: process_query.                                     *)
(***************************************************************************)
NL == "\n"

\* text.split(NL)
RECURSIVE SplitFrom(_, _, _)
SplitFrom(text, i, cur) ==
    IF i > Len(text) THEN <<cur>>
    ELSE IF text[i] = NL THEN <<cur>> \o SplitFrom(text, i + 1, <<>>)
    ELSE SplitFrom(text, i + 1, Append(cur, text[i]))

split_lines(text) == SplitFrom(text, 1, <<>>)

\* NL.join(lines)
RECURSIVE join_lines(_)
join_lines(lines) ==
    IF lines = <<>> THEN <<>>
    ELSE IF Len(lines) = 1 THEN lines[1]
    ELSE lines[1] \o <<NL>> \o join_lines(Tail(lines))

skip_markers == <<<<"c", "o", "m", "p", "l", "e", "t", "e", "d", " ", "i", "n">>, <<"t", "r", "a", "n", "s", "f", "e", "r", "_", "t", "a", "s", "k", "_", "t", "o", "_", "m", "e", "m", "b", "e", "r">>, <<"_", "f", "e", "t", "c", "h", "_">>>>

\* text.replace(NL NL NL, NL NL): left to right, without overlap
RECURSIVE ReplaceTriple(_, _)
ReplaceTriple(text, i) ==
    IF i > Len(text) THEN <<>>
    ELSE IF i + 2 <= Len(text) /\ text[i] = NL /\ text[i + 1] = NL /\ text[i + 2] = NL
    THEN <<NL, NL>> \o ReplaceTriple(text, i + 3)
    ELSE <<text[i]>> \o ReplaceTriple(text, i + 1)

RECURSIVE collapse_newlines(_)
collapse_newlines(text) ==
    IF IsSubstr(<<NL, NL, NL>>, text) THEN collapse_newlines(ReplaceTriple(text, 1)) ELSE text

WhiteSpace == {" ", NL, "\t"}

\* str.strip() of a text
RECURSIVE text_strip(_)
text_strip(text) ==
    IF text = <<>> THEN text
    ELSE IF Head(text) \in WhiteSpace THEN text_strip(Tail(text))
    ELSE IF text[Len(text)] \in WhiteSpace THEN text_strip(SubSeq(text, 1, Len(text) - 1))
    ELSE text

\* the lines with markers stay in the text
clean_response_unfiltered(text) == text_strip(collapse_newlines(text))

\* ComposioService.clean_response
clean_response(text) ==
    LET cleaned_lines == SelectSeq(split_lines(text), LAMBDA line : ~AnyIn(skip_markers, line))
    IN  text_strip(collapse_newlines(join_lines(cleaned_lines)))

NoAgent == "None"

Chunk(content, tool_calls, agent) ==
    [content |-> content, tool_calls |-> tool_calls, agent |-> agent]

\* one pass of the loop over team.run's stream, from the chunk at i on
RECURSIVE consume(_, _, _, _, _)
consume(chunks, i, response, tool_calls, current_agent) ==
    IF i > Len(chunks)
    THEN [response |-> response, tool_calls |-> tool_calls]
    ELSE LET c == chunks[i] IN
         consume(chunks, i + 1,
                 response \o c.content,
                 tool_calls \o [k \in 1..Len(c.tool_calls) |->
                                   [agent |-> current_agent, tool |-> c.tool_calls[k]]],
                 IF c.agent # NoAgent THEN c.agent ELSE current_agent)

NoResponseText == <<"N", "o", " ", "r", "e", "s", "p", "o", "n", "s", "e", " ", "g", "e", "n", "e", "r", "a", "t", "e", "d", ".", " ", "P", "l", "e", "a", "s", "e", " ", "m", "a", "k", "e", " ", "s", "u", "r", "e", " ", "y", "o", "u", "'", "r", "e", " ", "c", "o", "n", "n", "e", "c", "t", "e", "d", " ", "t", "o", " ", "t", "h", "e", " ", "r", "e", "q", "u", "i", "r", "e", "d", " ", "a", "p", "p", "s", ".">>
ErrorPrefix    == <<"E", "r", "r", "o", "r", " ", "p", "r", "o", "c", "e", "s", "s", "i", "n", "g", " ", "q", "u", "e", "r", "y", ":", " ">>

\* response and tool_calls as process_query leaves its try block
run_outcome(stream) ==
    LET got == consume(stream.chunks, 1, <<>>, <<>>, NoAgent) IN
    IF stream.raises
    THEN [response |-> ErrorPrefix \o stream.error, tool_calls |-> got.tool_calls]
    ELSE IF got.response = <<>>
    THEN [response |-> NoResponseText, tool_calls |-> got.tool_calls]
    ELSE [response |-> clean_response(got.response), tool_calls |-> got.tool_calls]

\* user.chat_history.append(chat_entry), keeping the last 5
HistoryKept == 5

\* the entry is appended and nothing is dropped
with_entry_untrimmed(chat_history, entry) == Append(chat_history, entry)

with_entry(chat_history, entry) ==
    LET h == Append(chat_history, entry) IN
    IF Len(h) > HistoryKept THEN SubSeq(h, Len(h) - HistoryKept + 1, Len(h)) ELSE h

\* [app for app in required_apps if app not in connected_apps], first one only
missing_apps_first_only(required, connected_apps) ==
    LET all == SelectSeq(required, LAMBDA app : \A i \in 1..Len(connected_apps) : connected_apps[i] # app)
    IN  IF all = <<>> THEN all ELSE <<all[1]>>

\* [app for app in required_apps if app not in connected_apps]
missing_apps(required, connected_apps) ==
    SelectSeq(required, LAMBDA app : \A i \in 1..Len(connected_apps) : connected_apps[i] # app)

\* ', '.join(names)
RECURSIVE join_names(_)
join_names(names) ==
    IF names = <<>> THEN <<>>
    ELSE IF Len(names) = 1 THEN names
    ELSE <<names[1], ", ">> \o join_names(Tail(names))

PleaseConnect == "Please connect the following apps first: "

TeamMembers ==
    <<"Gmail Agent", "Google Calendar", "Weather Agent", "Web Search Agent", "Google Drive Agent">>

\* the queries of the chat requests
QMail    == <<"c", "h", "e", "c", "k", " ", "m", "y", " ", "e", "m", "a", "i", "l">>
QWeather == <<"W", "e", "a", "t", "h", "e", "r", " ", "t", "o", "d", "a", "y">>
QBoth    == <<"e", "m", "a", "i", "l", " ", "m", "e", " ", "t", "h", "e", " ", "f", "o", "r", "e", "c", "a", "s", "t">>
QNone    == <<"h", "e", "l", "l", "o">>
Queries  == {QMail, QWeather, QBoth, QNone}

\* the event streams team.run gives
Streams ==
    { [chunks |-> <<Chunk(<<>>, <<"WEATHERMAP_WEATHER">>, "Weather Agent"),
                    Chunk(<<"S", "u", "n", "n", "y">> \o <<NL>> \o <<"x", " ", "c", "o", "m", "p", "l", "e", "t", "e", "d", " ", "i", "n", " ", "1", "s">> \o <<NL>>, <<>>, NoAgent)>>,
       raises |-> FALSE, error |-> <<>>],
      [chunks |-> <<Chunk(<<>>, <<>>, "Web Search Agent")>>,
       raises |-> FALSE, error |-> <<>>],
      [chunks |-> <<Chunk(<<"S", "u">>, <<"GMAIL_FETCH_EMAILS">>, NoAgent)>>,
       raises |-> TRUE, error |-> <<"t", "i", "m", "e", "o", "u", "t">>] }

\* no stream has been asked for yet
NoStream == [chunks |-> <<>>, raises |-> FALSE, error |-> <<>>]

\* process_query from get_user to the end of check_required_apps, for the
\* row read: the request ends here (no such user, or a required app is not
\* among the user's connected_apps) or goes on to create_team
gate(user, email, query) ==
    LET required == required_apps(query)
        missing  == missing_apps(required, user.connected_apps)
        req      == [pc |-> "team", email |-> email, query |-> query, user |-> user,
                     required |-> required, steps |-> <<"classify", "gate">>,
                     team |-> <<>>, entity_id |-> "", response |-> <<>>, tool_calls |-> <<>>,
                     stream |-> NoStream, consumed |-> 0,
                     http |-> [status |-> 0]]
    IN  IF ~user.exists
        THEN [req EXCEPT !.pc = "done", !.required = <<>>, !.steps = <<>>,
                         !.http = [status |-> 404, detail |-> <<"User not found">>]]
        ELSE IF missing # <<>>
        THEN [req EXCEPT !.pc = "done",
                         !.http = [status |-> 404,
                                   detail |-> <<PleaseConnect>> \o join_names(missing)]]
        ELSE req

\* create_team: the tools are looked up under the entity id the toolset has
\* just been given; get_tools may raise, which the route answers with 500
with_team(req, entity_id, toolsOk) ==
    IF toolsOk
    THEN [req EXCEPT !.pc = "run", !.team = TeamMembers, !.entity_id = entity_id,
                     !.steps = Append(req.steps, "assemble")]
    ELSE [req EXCEPT !.pc = "done", !.entity_id = entity_id,
                     !.http = [status |-> 500, detail |-> <<"get_tools failed">>]]

\* the loop over team.run(query, stream=True) and what follows it inside the
\* try block
with_run(req, stream) ==
    LET out == run_outcome(stream) IN
    [req EXCEPT !.pc = "save", !.steps = Append(req.steps, "run"),
                !.stream = stream, !.consumed = Len(stream.chunks),
                !.response = out.response, !.tool_calls = out.tool_calls]

\* the chat entry of a request, made at time now
chat_entry(req, now) ==
    [query |-> req.query, response |-> req.response, tool_calls |-> req.tool_calls,
     timestamp |-> now]

\* what process_query returns
with_result(req) ==
    [req EXCEPT !.pc = "done",
                !.http = [status |-> 200,
                          body |-> [query |-> req.query, response |-> req.response,
                                    tool_calls |-> req.tool_calls]]]

\* POST /users/{email}/chat: get_user and check_required_apps
process_query_gate(maxRuns, emails, queries) ==
    /\ ServerIdle
    /\ runs < maxRuns
    /\ \E email \in emails, query \in queries : pq' = gate(db[email], email, query)
    /\ UNCHANGED <<db, ext, toolset_entity_id, ca, runs>>
    /\ UNCHANGED notSvc

ProcessQueryGate == process_query_gate(MaxRuns, Emails, Queries)

\* process_query: create_team reads the user again and sets
\* self.toolset.entity_id before the get_tools calls
ProcessQueryTeam ==
    /\ pq.pc = "team"
    /\ toolset_entity_id' = db[pq.email].entity_id
    /\ \E toolsOk \in BOOLEAN : pq' = with_team(pq, toolset_entity_id', toolsOk)
    /\ UNCHANGED <<db, ext, ca, runs>>
    /\ UNCHANGED notSvc

\* process_query: the stream of team.run is consumed
process_query_run(streams) ==
    /\ pq.pc = "run"
    /\ \E stream \in streams : pq' = with_run(pq, stream)
    /\ UNCHANGED <<db, ext, toolset_entity_id, ca, runs>>
    /\ UNCHANGED notSvc

ProcessQueryRun == process_query_run(Streams)

\* process_query: the chat entry is appended to the history of the user
\* object read at the start, the history is written, the result returned
ProcessQuerySave ==
    /\ pq.pc = "save"
    /\ db' = [db EXCEPT ![pq.email].chat_history =
                            with_entry(pq.user.chat_history, chat_entry(pq, runs))]
    /\ pq' = with_result(pq)
    /\ runs' = runs + 1
    /\ UNCHANGED <<ext, toolset_entity_id, ca>>
    /\ UNCHANGED notSvc

\* the response of the chat request is delivered
ProcessQueryReturn ==
    /\ pq.pc = "done"
    /\ pq' = PqIdle
    /\ UNCHANGED <<db, ext, toolset_entity_id, ca, runs>>
    /\ UNCHANGED notSvc

SvcInit ==
    /\ db = [e \in Emails |-> NoRow]
    /\ ext = [e \in Emails |-> <<>>]
    /\ toolset_entity_id = "default"
    /\ ca = CaIdle
    /\ pq = PqIdle
    /\ runs = 0

(***************************************************************************)
(* process_query with the stream consumed chunk by chunk, and requests     *)
(* that are cancelled while it is consumed.  A cancellation reaches the    *)
(* loop as an exception that is not an Exception (CancelledError,          *)
(* KeyboardInterrupt): process_query's handler does not catch it.          *)
(***************************************************************************)
\* the cancellation is handled like an Exception of the run
on_cancel_caught(req) ==
    [req EXCEPT !.pc = "save", !.steps = Append(req.steps, "run"),
                !.response = ErrorPrefix \o <<"c", "a", "n", "c", "e", "l", "l", "e", "d">>]

\* the cancellation leaves process_query and the route: no response
on_cancel(req) ==
    [req EXCEPT !.pc = "done", !.http = [status |-> 499, detail |-> <<"cancelled">>]]

CancelGate == process_query_gate(MaxCancelRuns, Emails, Queries)

\* team.run(query, stream=True) is called
StreamBegin ==
    /\ pq.pc = "run"
    /\ \E stream \in Streams : pq' = [pq EXCEPT !.pc = "stream", !.stream = stream]
    /\ UNCHANGED <<db, ext, toolset_entity_id, ca, runs>>
    /\ UNCHANGED notSvc

\* the loop takes the next chunk
StreamChunk ==
    /\ pq.pc = "stream"
    /\ pq.consumed < Len(pq.stream.chunks)
    /\ LET part == consume(SubSeq(pq.stream.chunks, 1, pq.consumed + 1), 1, <<>>, <<>>, NoAgent)
       IN  pq' = [pq EXCEPT !.consumed = pq.consumed + 1,
                            !.response = part.response, !.tool_calls = part.tool_calls]
    /\ UNCHANGED <<db, ext, toolset_entity_id, ca, runs>>
    /\ UNCHANGED notSvc

\* the stream ends, or raises, after its last chunk
StreamEnd ==
    /\ pq.pc = "stream"
    /\ pq.consumed = Len(pq.stream.chunks)
    /\ pq' = with_run(pq, pq.stream)
    /\ UNCHANGED <<db, ext, toolset_entity_id, ca, runs>>
    /\ UNCHANGED notSvc

\* the request is cancelled while the stream is being consumed
Cancel ==
    /\ pq.pc = "stream"
    /\ pq' = on_cancel(pq)
    /\ UNCHANGED <<db, ext, toolset_entity_id, ca, runs>>
    /\ UNCHANGED notSvc

CancelNext ==
    \/ CreateUser
    \/ CancelGate
    \/ ProcessQueryTeam
    \/ StreamBegin
    \/ StreamChunk
    \/ StreamEnd
    \/ Cancel
    \/ ProcessQuerySave
    \/ ProcessQueryReturn

(***************************************************************************)
(* The FastAPI service run as several server processes.  Each process has  *)
(* its own ComposioService (routes/composio.py: service) and serves one    *)
(* request at a time: process_query and connect_app never suspend, so      *)
(* within a process a request runs from its first to its last statement.   *)
(* The processes share the SQLite file and the connector, and their        *)
(* database reads and writes interleave.                                   *)
(***************************************************************************)
Workers == 1..NumWorkers

\* the streams that end without an exception
ConcStreams == {stream \in Streams : ~stream.raises}

InFlight == Cardinality({w \in Workers : wq[w].pc # "idle"})

\* self.toolset.entity_id = user.entity_id: the toolset is left as it was
team_entity_unset(current, user) == current

\* self.toolset.entity_id = user.entity_id
team_entity(current, user) == user.entity_id

\* POST /users/ on any process
ConcCreateUser ==
    /\ create_user(Emails)
    /\ UNCHANGED wkVars
    /\ UNCHANGED notSvc

\* POST /users/{email}/connect on an idle process: connect_app, the
\* connector answering every call
ConcConnect ==
    /\ \E w \in Workers, email \in Emails, app_name \in {"gmail"} :
         /\ wq[w].pc = "idle"
         /\ db[email].exists
         /\ LET r == connect_app(db[email], app_name, ext[db[email].entity_id],
                                 TRUE, TRUE, TRUE, TRUE, TRUE, TRUE)
            IN  /\ Len(r.conns) <= MaxConns
                /\ db' = [db EXCEPT ![email].connected_apps = r.connected_apps]
                /\ ext' = [ext EXCEPT ![db[email].entity_id] = r.conns]
                /\ wtoolset' = IF is_oauth_app(app_name)
                               THEN [wtoolset EXCEPT ![w] = db[email].entity_id]
                               ELSE wtoolset
                /\ wq' = [wq EXCEPT ![w] =
                             [pc |-> "done", email |-> email, query |-> <<>>, user |-> db[email],
                              required |-> <<>>, steps |-> <<>>, team |-> <<>>, entity_id |-> "",
                              response |-> <<>>, tool_calls |-> <<>>,
                              stream |-> NoStream, consumed |-> 0,
                              http |-> [status |-> 200, body |-> r.result]]]
    /\ UNCHANGED runs
    /\ UNCHANGED notWk

\* POST /users/{email}/chat on an idle process: get_user reads the row,
\* check_required_apps classifies and gates
ConcGate ==
    /\ runs + InFlight < MaxConcRuns
    /\ \E w \in Workers, email \in Emails, query \in {QNone, QMail} :
         /\ wq[w].pc = "idle"
         /\ wq' = [wq EXCEPT ![w] = gate(db[email], email, query)]
    /\ UNCHANGED <<db, ext, runs, wtoolset>>
    /\ UNCHANGED notWk

\* create_team on a process: the row is read again, the toolset gets the
\* user's entity id, the tools are looked up
ConcTeam ==
    /\ \E w \in Workers, toolsOk \in BOOLEAN :
         /\ wq[w].pc = "team"
         /\ wtoolset' = [wtoolset EXCEPT ![w] = team_entity(wtoolset[w], db[wq[w].email])]
         /\ wq' = [wq EXCEPT ![w] = with_team(wq[w], wtoolset'[w], toolsOk)]
    /\ UNCHANGED <<db, ext, runs>>
    /\ UNCHANGED notWk

\* the stream of team.run is consumed on a process
ConcRun ==
    /\ \E w \in Workers, stream \in ConcStreams :
         /\ wq[w].pc = "run"
         /\ wq' = [wq EXCEPT ![w] = with_run(wq[w], stream)]
    /\ UNCHANGED <<db, ext, runs, wtoolset>>
    /\ UNCHANGED notWk

\* a process appends its entry to the history it read at the start of the
\* request and writes the whole list
ConcSave ==
    /\ \E w \in Workers :
         /\ wq[w].pc = "save"
         /\ db' = [db EXCEPT ![wq[w].email].chat_history =
                                 with_entry(wq[w].user.chat_history, chat_entry(wq[w], runs))]
         /\ wq' = [wq EXCEPT ![w] = with_result(wq[w])]
    /\ runs' = runs + 1
    /\ UNCHANGED <<ext, wtoolset>>
    /\ UNCHANGED notWk

\* the response of a process's chat request is delivered
ConcReturn ==
    /\ \E w \in Workers :
         /\ wq[w].pc = "done"
         /\ wq' = [wq EXCEPT ![w] = PqIdle]
    /\ UNCHANGED <<db, ext, runs, wtoolset>>
    /\ UNCHANGED notWk

WkInit ==
    /\ wq = [w \in Workers |-> PqIdle]
    /\ wtoolset = [w \in Workers |-> "default"]

ConcNext ==
    \/ ConcCreateUser
    \/ ConcConnect
    \/ ConcGate
    \/ ConcTeam
    \/ ConcRun
    \/ ConcSave
    \/ ConcReturn

(***************************************************************************)
(* clean_response and the stream loop of process_query on generated        *)
(* inputs.                                                                 *)
(***************************************************************************)
TextPieces ==
    {<<NL>>, <<"a">>, <<"b">>, <<" ">>,
     <<"c", "o", "m", "p", "l", "e", "t", "e", "d", " ", "i", "n">>, <<"t", "r", "a", "n", "s", "f", "e", "r", "_", "t", "a", "s", "k", "_", "t", "o", "_", "m", "e", "m", "b", "e", "r">>, <<"_", "f", "e", "t", "c", "h", "_">>}

CleanTexts == {Concat(ps) : ps \in UNION {[1..n -> TextPieces] : n \in 0..MaxPieces}}

CrInit0 ==
    /\ cr_text = <<>>
    /\ cr_out = <<>>
    /\ cr_done = FALSE

CrInitAny ==
    /\ cr_text \in CleanTexts
    /\ cr_out = <<>>
    /\ cr_done = FALSE

\* clean_response is called with the text
CleanResponse ==
    /\ ~cr_done
    /\ cr_out' = clean_response(cr_text)
    /\ cr_done' = TRUE
    /\ UNCHANGED cr_text
    /\ UNCHANGED notCr

\* what a chunk of team.run may carry
ChunkContents == {<<>>, <<"a">>, <<" ">>, <<NL>>, <<"x", " ", "c", "o", "m", "p", "l", "e", "t", "e", "d", " ", "i", "n", " ", "1", "s">>}
ChunkTools    == {<<>>, <<"GMAIL_FETCH_EMAILS">>}
ChunkAgents   == {NoAgent, "Gmail Agent", "Weather Agent"}

Chunks == {Chunk(c, t, a) : c \in ChunkContents, t \in ChunkTools, a \in ChunkAgents}

GenStreams ==
    {[chunks |-> cs, raises |-> r, error |-> e] :
        cs \in UNION {[1..n -> Chunks] : n \in 0..MaxChunks},
        r \in BOOLEAN, e \in {<<>>, <<"t", "i", "m", "e", "o", "u", "t">>}}

NoOutcome == [response |-> <<>>, tool_calls |-> <<>>]

StInit0 ==
    /\ st_stream = NoStream
    /\ st_out = NoOutcome
    /\ st_done = FALSE

StInitAny ==
    /\ st_stream \in {stream \in GenStreams : stream.raises \/ stream.error = <<>>}
    /\ st_out = NoOutcome
    /\ st_done = FALSE

\* process_query consumes the stream
ConsumeStream ==
    /\ ~st_done
    /\ st_out' = run_outcome(st_stream)
    /\ st_done' = TRUE
    /\ UNCHANGED st_stream
    /\ UNCHANGED notSt

(***************************************************************************)
(* The CLI's model strategy: smart_agent_selector and create_dynamic_team. *)
(***************************************************************************)
Requests == {"check my emails", "find laptops and save to file"}

\* keys of tool_configs, and the worker each one names
tool_configs ==
    [gmail    |-> "Gmail Agent",
     calendar |-> "Google Calendar Agent",
     weather  |-> "Weather Agent",
     search   |-> "Web Search Agent",
     drive    |-> "Google Drive Agent"]

FilesystemAgent == "File System Agent"

\* names the selector model may put in "agents": the six its instructions
\* list ("filesystem" among them) and one it was never told about
AgentNames == DOMAIN tool_configs \cup {"filesystem", "notion"}

AgentLists == UNION {[1..n -> AgentNames] : n \in 0..MaxAgents}

AgentsValues ==
    {JArr([i \in 1..Len(l) |-> JStr(l[i])]) : l \in AgentLists} \cup {JNull, JStr("search")}

\* JSON values the selector model may reply with
SelectorValues ==
    {JObj(<<"agents", "needs_filesystem">>, <<a, JBool(b)>>) : a \in AgentsValues, b \in BOOLEAN}
    \cup {JObj(<<"agents">>, <<a>>) : a \in AgentsValues}
    \cup {JObj(<<"needs_filesystem">>, <<JBool(b)>>) : b \in BOOLEAN}
    \cup {JObj(<<>>, <<>>), JArr(<<JStr("search")>>), JStr("search"), JNull}

Content(toks) == [none |-> FALSE, content |-> toks]

\* replies of the selector model: the bare JSON text, the text with white
\* space around it, with prose before it, inside a code fence, cut short,
\* empty, and a response without content
Replies ==
    {Content(Render(v)) : v \in SelectorValues}
    \cup {Content(<<WS>> \o Render(v) \o <<WS>>) : v \in SelectorValues}
    \cup {Content(<<W("Sure:")>> \o Render(v)) : v \in SelectorValues}
    \cup {Content(<<W("~~~json")>> \o Render(v) \o <<W("~~~")>>) : v \in SelectorValues}
    \cup {Content(SubSeq(Render(v), 1, Len(Render(v)) - 1)) : v \in SelectorValues}
    \cup {Content(<<>>), [none |-> TRUE, content |-> <<>>]}

DefaultDecision ==
    JObj(<<"agents", "needs_filesystem">>, <<JArr(<<JStr("search")>>), JBool(FALSE)>>)

\* smart_agent_selector with a fallback that names no agent
smart_agent_selector_empty_fallback(rep) ==
    LET empty == JObj(<<"agents", "needs_filesystem">>, <<JArr(<<>>), JBool(FALSE)>>) IN
    IF rep.none THEN empty
    ELSE LET r == json_loads(strip(rep.content)) IN
         IF r.ok THEN r.val ELSE empty

\* try: json.loads(response.content.strip())  except: the default decision
smart_agent_selector(rep) ==
    IF rep.none THEN DefaultDecision
    ELSE LET r == json_loads(strip(rep.content)) IN
         IF r.ok THEN r.val ELSE DefaultDecision

\* dict.get(key, default)
DictGet(d, key, default) ==
    IF \E i \in 1..Len(d.keys) : d.keys[i] = key
    THEN d.vals[CHOOSE i \in 1..Len(d.keys) : d.keys[i] = key]
    ELSE default

\* the characters of the strings that occur as an "agents" value
Chars(s) == IF s = "search" THEN <<"s", "e", "a", "r", "c", "h">> ELSE <<>>

Iterable(v) == v.t \in {"arr", "str", "obj"}

\* the items that iterating over v yields
IterItems(v) ==
    CASE v.t = "arr" -> v.items
      [] v.t = "str" -> [i \in 1..Len(Chars(v.s)) |-> JStr(Chars(v.s)[i])]
      [] v.t = "obj" -> [i \in 1..Len(v.keys) |-> JStr(v.keys[i])]
      [] OTHER -> <<>>

\* ', '.join(v) succeeds
Joinable(v) == Iterable(v) /\ \A i \in 1..Len(IterItems(v)) : IterItems(v)[i].t = "str"

\* bool(v)
Truthy(v) ==
    CASE v.t = "bool" -> v.b
      [] v.t = "str"  -> v.s # ""
      [] v.t = "arr"  -> v.items # <<>>
      [] v.t = "obj"  -> v.keys # <<>>
      [] OTHER -> FALSE

\* the loop `for agent_type in needed_agents: if agent_type in tool_configs`
RECURSIVE agents_for(_)
agents_for(items) ==
    IF items = <<>> THEN <<>>
    ELSE (IF Head(items).s \in DOMAIN tool_configs
          THEN <<tool_configs[Head(items).s]>> ELSE <<>>)
         \o agents_for(Tail(items))

Unset == [t |-> "unset"]

\* create_dynamic_team, from the reply of the selector model and from what
\* the collaborators do: toolset.get_tools, MCPTools' start, team.arun
create_dynamic_team(rep, toolsOk, mcpOk, runOk) ==
    LET sel    == smart_agent_selector(rep)
        needed == DictGet(sel, "agents", JArr(<<>>))
        fs     == Truthy(DictGet(sel, "needs_filesystem", JBool(FALSE)))
        agents == agents_for(IterItems(needed))
        base   == [selection |-> sel, needed_agents |-> Unset, needs_filesystem |-> FALSE,
                   members |-> <<>>, cli |-> "raised_selection"]
    IN  IF sel.t # "obj" THEN base                       \* selection.get: AttributeError
        ELSE IF ~Joinable(needed)                        \* ', '.join(needed_agents): TypeError
             THEN [base EXCEPT !.needed_agents = needed, !.needs_filesystem = fs]
        ELSE IF ~toolsOk
             THEN [base EXCEPT !.needed_agents = needed, !.needs_filesystem = fs,
                               !.cli = "raised_tools"]
        ELSE IF fs /\ ~mcpOk
             THEN [base EXCEPT !.needed_agents = needed, !.needs_filesystem = fs,
                               !.cli = "raised_mcp"]
        ELSE [selection |-> sel, needed_agents |-> needed, needs_filesystem |-> fs,
              members |-> IF fs THEN Append(agents, FilesystemAgent) ELSE agents,
              cli |-> IF runOk THEN "completed" ELSE "raised_run"]

SelInit ==
    /\ user_request = ""
    /\ reply = Content(<<>>)
    /\ selection = Unset
    /\ needed_agents = Unset
    /\ needs_filesystem = FALSE
    /\ members = <<>>
    /\ cli = "idle"

\* cli.py process_query: selection = await smart_agent_selector(query, model)
SmartAgentSelector ==
    /\ cli = "idle"
    /\ \E req \in Requests, rep \in Replies :
         /\ user_request' = req
         /\ reply' = rep
         /\ selection' = smart_agent_selector(rep)
         /\ cli' = "selected"
    /\ UNCHANGED <<needed_agents, needs_filesystem, members>>
    /\ UNCHANGED notSel

\* ubik_agno.py main: await create_dynamic_team(user_request, model, toolset)
CreateDynamicTeam ==
    /\ cli = "idle"
    /\ \E req \in Requests, rep \in Replies, toolsOk \in BOOLEAN, mcpOk \in BOOLEAN, runOk \in BOOLEAN :
         LET r == create_dynamic_team(rep, toolsOk, mcpOk, runOk) IN
         /\ user_request' = req
         /\ reply' = rep
         /\ selection' = r.selection
         /\ needed_agents' = r.needed_agents
         /\ needs_filesystem' = r.needs_filesystem
         /\ members' = r.members
         /\ cli' = r.cli
    /\ UNCHANGED notSel

\* the call is over and the CLI takes the next request
CliNext ==
    /\ cli # "idle"
    /\ user_request' = ""
    /\ reply' = Content(<<>>)
    /\ selection' = Unset
    /\ needed_agents' = Unset
    /\ needs_filesystem' = FALSE
    /\ members' = <<>>
    /\ cli' = "idle"
    /\ UNCHANGED notSel

(***************************************************************************)
(* agno2.py: EnhancedTeamRunner.run_with_retry.                            *)
(***************************************************************************)
\* default of the max_retries parameter
max_retries == 3

Messages == {"send the report", "weather in Pune"}
\* what the team answers, and what it raises
Contents == {"done", "sorry"}
Errors   == {"timeout"}

Raised(e)   == [raised |-> TRUE, error |-> e]
Returned(c) == [raised |-> FALSE, content |-> c]

\* every backoff lasts one second
backoff_constant(attempt) == 1

\* asyncio.sleep(2 ** attempt)
backoff(attempt) == 2 ^ attempt

\* self.conversation_history[-2:]
last_two(history) ==
    IF Len(history) > 2 THEN SubSeq(history, Len(history) - 1, Len(history)) ELSE history

context_message(history, message) ==
    [context |-> last_two(history), request |-> message]

RrIdle == [pc |-> "idle"]

\* run_with_retry is called: the loop is entered with attempt 0
RunWithRetry ==
    /\ rr.pc = "idle"
    /\ calls < MaxCalls
    /\ \E message \in Messages, stream \in BOOLEAN :
         rr' = [pc |-> "try", message |-> message, stream |-> stream, attempt |-> 0,
                delays |-> <<>>, team_log |-> <<>>, result |-> Raised("")]
    /\ UNCHANGED <<conversation_history, calls>>
    /\ UNCHANGED notRun

\* the team run of this attempt gives a response: the history gets an
\* entry, the response is returned
TeamReturns ==
    /\ rr.pc = "try"
    /\ \E c \in Contents :
         LET arg == context_message(conversation_history, rr.message) IN
         /\ rr' = [rr EXCEPT !.pc = "returned", !.result = Returned(c),
                             !.team_log = Append(rr.team_log, [arg |-> arg, out |-> Returned(c)])]
         /\ conversation_history' =
               Append(conversation_history,
                      IF rr.stream
                      THEN [request |-> rr.message, success |-> TRUE]
                      ELSE [request |-> rr.message, response |-> c, success |-> TRUE])
    /\ UNCHANGED calls
    /\ UNCHANGED notRun

\* the team run of this attempt raises: before the last attempt the runner
\* goes to sleep; on the last one it records the failure and re-raises
TeamRaises ==
    /\ rr.pc = "try"
    /\ \E e \in Errors :
         LET arg == context_message(conversation_history, rr.message)
             log == Append(rr.team_log, [arg |-> arg, out |-> Raised(e)])
         IN  IF rr.attempt < max_retries - 1
             THEN /\ rr' = [rr EXCEPT !.pc = "sleep", !.team_log = log]
                  /\ UNCHANGED conversation_history
             ELSE /\ rr' = [rr EXCEPT !.pc = "raised", !.result = Raised(e), !.team_log = log]
                  /\ conversation_history' =
                        Append(conversation_history,
                               [request |-> rr.message, error |-> e, success |-> FALSE])
    /\ UNCHANGED calls
    /\ UNCHANGED notRun

\* the backoff sleep ends and the loop goes to the next attempt
BackoffSleep ==
    /\ rr.pc = "sleep"
    /\ rr' = [rr EXCEPT !.pc = "try", !.attempt = rr.attempt + 1,
                        !.delays = Append(rr.delays, backoff(rr.attempt))]
    /\ UNCHANGED <<conversation_history, calls>>
    /\ UNCHANGED notRun

\* the caller has the response, or the exception
RunnerDone ==
    /\ rr.pc \in {"returned", "raised"}
    /\ rr' = RrIdle
    /\ calls' = calls + 1
    /\ UNCHANGED conversation_history
    /\ UNCHANGED notRun

RunInit ==
    /\ rr = RrIdle
    /\ conversation_history = <<>>
    /\ calls = 0

RunNext == RunWithRetry \/ TeamReturns \/ TeamRaises \/ BackoffSleep \/ RunnerDone

(***************************************************************************)
(* agno2.py: EnhancedComposioManager.                                      *)
(***************************************************************************)
\* app names connect_app is called with
MgrApps == {"gmail", "Gmail", "notion"}

\* max_retries and retry_delay of connect_app
connect_max_retries == 3
retry_delay == 2

\* conn_status.lower()
status_lower(status) ==
    CASE status = "ACTIVE"    -> "active"
      [] status = "Active"    -> "active"
      [] status = "INITIATED" -> "initiated"
      [] OTHER                -> status

NoError == ""

\* EnhancedComposioManager.check_connection_status: the first record of the
\* app decides; checkOk is whether get_entity and get_connections succeed
check_connection_status(app_name, conns, checkOk) ==
    LET matching == {i \in 1..Len(conns) : name_lower(conns[i].appName) = name_lower(app_name)}
        first    == CHOOSE i \in matching : \A j \in matching : i <= j
    IN  IF ~checkOk
        THEN [success |-> FALSE, status |-> "error", connection_id |-> NoId,
              auth_url |-> NoUrl, error |-> "connector"]
        ELSE IF matching = {}
        THEN [success |-> TRUE, status |-> "disconnected", connection_id |-> NoId,
              auth_url |-> NoUrl, error |-> NoError]
        ELSE [success |-> TRUE,
              status |-> IF status_lower(conns[first].status) \in {"active", "connected"}
                         THEN "connected" ELSE "disconnected",
              connection_id |-> first, auth_url |-> NoUrl, error |-> NoError]

McIdle == [pc |-> "idle"]

\* a failed attempt is followed by another one after the first only
may_retry_once(attempt) == attempt < 1

\* attempt < max_retries - 1
may_retry(attempt) == attempt < connect_max_retries - 1

\* the exception of the last attempt leaves connect_app
after_failure_propagates(attempt) == IF may_retry(attempt) THEN "sleep" ELSE "raised"

\* where connect_app is after an attempt raised: asleep before the next
\* attempt, or done with the ERROR result its outer handler returns
after_failure(attempt) == IF may_retry(attempt) THEN "sleep" ELSE "done"

NoCall == [app_name |-> "", status |-> "", conns |-> <<>>]

\* connect_app is called: the loop is entered with attempt 0
MgrConnect ==
    /\ mc.pc = "idle"
    /\ \E app_name \in MgrApps :
         mc' = [pc |-> "try", app_name |-> app_name, attempt |-> 0, sleeps |-> <<>>,
                requests |-> <<>>, raised |-> <<>>, before |-> mgr_conns,
                result |-> [success |-> FALSE, status |-> "", connection_id |-> NoId,
                            auth_url |-> NoUrl, error |-> NoError]]
    /\ UNCHANGED <<mgr_conns, mgr_connected_apps, mgr_prev>>
    /\ UNCHANGED notMgr

\* one pass of connect_app's loop, up to its return, its sleep or its last
\* failure
MgrAttempt ==
    /\ mc.pc = "try"
    /\ \E checkOk \in BOOLEAN, entityOk \in BOOLEAN, conv1Ok \in BOOLEAN, conv2Ok \in BOOLEAN,
          hasUrl \in BOOLEAN, hasId \in BOOLEAN :
         LET status == check_connection_status(mc.app_name, mgr_conns, checkOk)
             tries  == IF conv1Ok THEN <<"initiate_connection(app_name)">>
                       ELSE <<"initiate_connection(app_name)", "initiate_connection(appName)">>
             id     == IF hasId THEN Len(mgr_conns) + 1 ELSE NoId
             failed(reqs, e) ==
                 IF after_failure(mc.attempt) = "sleep"
                 THEN [mc EXCEPT !.pc = "sleep", !.requests = reqs,
                                 !.raised = Append(mc.raised, e)]
                 ELSE [mc EXCEPT !.pc = after_failure(mc.attempt), !.requests = reqs,
                                 !.raised = Append(mc.raised, e),
                                 !.result = [success |-> FALSE, status |-> "error",
                                             connection_id |-> NoId, auth_url |-> NoUrl,
                                             error |-> e]]
         IN  IF status.status = "connected"
             THEN /\ mgr_connected_apps' =
                        [mgr_connected_apps EXCEPT ![mc.app_name] = status.connection_id]
                  /\ mc' = [mc EXCEPT !.pc = "done",
                                      !.requests = mc.requests \o <<"check_connection_status">>,
                                      !.result = [status EXCEPT !.success = TRUE]]
                  /\ UNCHANGED mgr_conns
             ELSE IF ~entityOk
             THEN /\ mc' = failed(mc.requests \o <<"check_connection_status", "get_entity">>,
                                   "get_entity failed")
                  /\ UNCHANGED <<mgr_conns, mgr_connected_apps>>
             ELSE IF ~conv1Ok /\ ~conv2Ok
             THEN /\ mc' = failed(mc.requests \o <<"check_connection_status", "get_entity">> \o tries,
                                   "initiate_connection(appName) failed")
                  /\ UNCHANGED <<mgr_conns, mgr_connected_apps>>
             ELSE /\ Len(mgr_conns) < MaxConns
                  /\ mgr_conns' = Append(mgr_conns, [appName |-> name_lower(mc.app_name),
                                                     status |-> "INITIATED"])
                  /\ mgr_connected_apps' =
                        IF hasId THEN [mgr_connected_apps EXCEPT ![mc.app_name] = id]
                        ELSE mgr_connected_apps
                  /\ mc' = [mc EXCEPT !.pc = "done",
                                      !.requests = mc.requests
                                                   \o <<"check_connection_status", "get_entity">> \o tries,
                                      !.result = [success |-> TRUE, status |-> "pending",
                                                  connection_id |-> id,
                                                  auth_url |-> IF hasUrl THEN "redirectUrl" ELSE NoUrl,
                                                  error |-> NoError]]
    /\ UNCHANGED mgr_prev
    /\ UNCHANGED notMgr

\* time.sleep(retry_delay) ends and the loop goes to the next attempt
MgrSleep ==
    /\ mc.pc = "sleep"
    /\ mc' = [mc EXCEPT !.pc = "try", !.attempt = mc.attempt + 1,
                        !.sleeps = Append(mc.sleeps, retry_delay)]
    /\ UNCHANGED <<mgr_conns, mgr_connected_apps, mgr_prev>>
    /\ UNCHANGED notMgr

\* connect_app's caller has the ConnectionResult
MgrReturn ==
    /\ mc.pc = "done"
    /\ mgr_prev' = [app_name |-> mc.app_name, status |-> mc.result.status, conns |-> mgr_conns]
    /\ mc' = McIdle
    /\ UNCHANGED <<mgr_conns, mgr_connected_apps>>
    /\ UNCHANGED notMgr

\* the user finishes the authorization flow of an initiated connection
MgrAuthorize ==
    /\ \E i \in 1..Len(mgr_conns) :
         /\ mgr_conns[i].status = "INITIATED"
         /\ mgr_conns' = [mgr_conns EXCEPT ![i].status = "ACTIVE"]
    /\ UNCHANGED <<mc, mgr_connected_apps, mgr_prev>>
    /\ UNCHANGED notMgr

MgrInit ==
    /\ mc = McIdle
    /\ mgr_conns = <<>>
    /\ mgr_connected_apps = [a \in MgrApps |-> NoId]
    /\ mgr_prev = NoCall

MgrNext == MgrConnect \/ MgrAttempt \/ MgrSleep \/ MgrReturn \/ MgrAuthorize

(***************************************************************************)
(* The connection helpers outside the service: check_connection_status of  *)
(* pythonkit-agno and of cli.py, connect_composio_app, setup_connections   *)
(* of ubik_agno.py and connect_app of v1/ubik.py.                          *)
(***************************************************************************)
\* app names and statuses of the records the connector may list
KApps     == {"gmail", "Gmail", "notion"}
KStatuses == {"ACTIVE", "Active", "connected", "INITIATED"}

KRecords == [appName : KApps, status : KStatuses]

KConnLists == UNION {[1..n -> KRecords] : n \in 0..MaxRecords}

\* app names the helpers are called with
KNames == {"gmail", "Gmail"}

\* indices of the records whose app name is app_name, ignoring case
Matching(app_name, conns) ==
    {i \in 1..Len(conns) : name_lower(conns[i].appName) = name_lower(app_name)}

First(indices) == CHOOSE i \in indices : \A j \in indices : i <= j

\* pythonkit-agno check_connection_status: returns inside the loop at the
\* first record of the app, with its status tested against the four literals
pythonkit_check_connection_status(app_name, conns, checkOk) ==
    LET matching == Matching(app_name, conns) IN
    IF ~checkOk THEN [connected |-> FALSE, status |-> "error"]
    ELSE IF matching = {} THEN [connected |-> FALSE, status |-> "not_connected"]
    ELSE [connected |-> conns[First(matching)].status \in ActiveLiterals,
          status |-> conns[First(matching)].status]

\* cli.py check_connection_status: returns at the first record of the app
\* whose status is one of the four literals, else goes on with the loop
cli_check_connection_status(app_name, conns, checkOk) ==
    LET hits == {i \in Matching(app_name, conns) : conns[i].status \in ActiveLiterals} IN
    IF ~checkOk THEN [connected |-> FALSE, status |-> "error"]
    ELSE IF hits = {} THEN [connected |-> FALSE, status |-> "not_connected"]
    ELSE [connected |-> TRUE, status |-> conns[First(hits)].status]

\* any(appName.lower() == app_name.lower() and status.lower() in ['active', 'connected'])
any_connected(app_name, conns) ==
    \E i \in Matching(app_name, conns) : status_lower(conns[i].status) \in {"active", "connected"}

Conv1 == "initiate_connection(app_name)"
Conv2 == "initiate_connection(appName)"

Initiated(app_name) == [appName |-> name_lower(app_name), status |-> "INITIATED"]

\* one connection attempt: the app, the requests made to the connector, and
\* whether the helper reported it as failed
Attempt(app_name, requests, failed) ==
    [app_name |-> app_name, requests |-> requests, failed |-> failed]

\* pythonkit-agno connect_composio_app
connect_composio_app(app_name, conns, entityOk, connsOk, conv1Ok, conv2Ok) ==
    LET already == \E i \in Matching(app_name, conns) : conns[i].status \in ActiveLiterals IN
    IF ~entityOk
    THEN [attempt |-> Attempt(app_name, <<"get_entity">>, TRUE), conns |-> conns]
    ELSE IF connsOk /\ already
    THEN [attempt |-> Attempt(app_name, <<"get_entity", "get_connections">>, FALSE),
          conns |-> conns]
    ELSE IF conv1Ok
    THEN [attempt |-> Attempt(app_name, <<"get_entity", "get_connections", Conv1>>, FALSE),
          conns |-> Append(conns, Initiated(app_name))]
    ELSE IF conv2Ok
    THEN [attempt |-> Attempt(app_name, <<"get_entity", "get_connections", Conv1, Conv2>>, FALSE),
          conns |-> Append(conns, Initiated(app_name))]
    ELSE [attempt |-> Attempt(app_name, <<"get_entity", "get_connections", Conv1, Conv2>>, TRUE),
          conns |-> conns]

\* the body of the loop of ubik_agno.py setup_connections for one app
setup_connection(app_name, conns, lookupOk, conv1Ok) ==
    IF ~lookupOk
    THEN [attempt |-> Attempt(app_name, <<"get_entity">>, TRUE), conns |-> conns]
    ELSE IF any_connected(app_name, conns)
    THEN [attempt |-> Attempt(app_name, <<"get_entity", "get_connections">>, FALSE),
          conns |-> conns]
    ELSE IF conv1Ok
    THEN [attempt |-> Attempt(app_name, <<"get_entity", "get_connections", Conv1>>, FALSE),
          conns |-> Append(conns, Initiated(app_name))]
    ELSE [attempt |-> Attempt(app_name, <<"get_entity", "get_connections", Conv1>>, TRUE),
          conns |-> conns]

\* oauth_apps of setup_connections
setup_apps == <<"googlecalendar", "gmail", "googledrive">>

\* setup_connections: the loop over its apps; lookupOk and conv1Ok say, per
\* app, what the connector does
RECURSIVE setup_connections(_, _, _, _, _)
setup_connections(i, conns, lookupOk, conv1Ok, attempts) ==
    IF i > Len(setup_apps) THEN [attempts |-> attempts, conns |-> conns]
    ELSE LET r == setup_connection(setup_apps[i], conns, lookupOk[i], conv1Ok[i]) IN
         setup_connections(i + 1, r.conns, lookupOk, conv1Ok, Append(attempts, r.attempt))

OAUTH_APPS == <<"gmail", "googlecalendar", "googledrive">>

\* v1/ubik.py connect_app
v1_connect_app(app_name, conns, lookupOk, conv1Ok) ==
    IF ~\E i \in 1..Len(OAUTH_APPS) : OAUTH_APPS[i] = app_name
    THEN [attempts |-> <<>>, conns |-> conns]
    ELSE IF ~lookupOk
    THEN [attempts |-> <<Attempt(app_name, <<"get_entity">>, TRUE)>>, conns |-> conns]
    ELSE IF any_connected(app_name, conns)
    THEN [attempts |-> <<Attempt(app_name, <<"get_entity", "get_connections">>, FALSE)>>,
          conns |-> conns]
    ELSE IF conv1Ok
    THEN [attempts |-> <<Attempt(app_name, <<"get_entity", "get_connections", Conv1>>, FALSE)>>,
          conns |-> Append(conns, Initiated(app_name))]
    ELSE [attempts |-> <<Attempt(app_name, <<"get_entity", "get_connections", Conv1>>, TRUE)>>,
          conns |-> conns]

KIdle == [pc |-> "idle"]

\* a finished status check
Checked(fn, app_name, res) ==
    [pc |-> "done", fn |-> fn, app_name |-> app_name, connected |-> res.connected,
     status |-> res.status, attempts |-> <<>>]

\* a finished connect helper
Connected(fn, app_name, attempts) ==
    [pc |-> "done", fn |-> fn, app_name |-> app_name, connected |-> FALSE,
     status |-> "", attempts |-> attempts]

PythonkitCheckConnectionStatus ==
    /\ k_call.pc = "idle"
    /\ \E app_name \in KNames, checkOk \in BOOLEAN :
         k_call' = Checked("pythonkit.check_connection_status", app_name,
                           pythonkit_check_connection_status(app_name, k_conns, checkOk))
    /\ UNCHANGED k_conns
    /\ UNCHANGED notKn

CliCheckConnectionStatus ==
    /\ k_call.pc = "idle"
    /\ \E app_name \in KNames, checkOk \in BOOLEAN :
         k_call' = Checked("cli.check_connection_status", app_name,
                           cli_check_connection_status(app_name, k_conns, checkOk))
    /\ UNCHANGED k_conns
    /\ UNCHANGED notKn

ManagerCheckConnectionStatus ==
    /\ k_call.pc = "idle"
    /\ \E app_name \in KNames, checkOk \in BOOLEAN :
         LET res == check_connection_status(app_name, k_conns, checkOk) IN
         k_call' = Checked("agno2.check_connection_status", app_name,
                           [connected |-> res.status = "connected", status |-> res.status])
    /\ UNCHANGED k_conns
    /\ UNCHANGED notKn

ConnectComposioApp ==
    /\ k_call.pc = "idle"
    /\ \E app_name \in KNames, entityOk \in BOOLEAN, connsOk \in BOOLEAN,
          conv1Ok \in BOOLEAN, conv2Ok \in BOOLEAN :
         LET r == connect_composio_app(app_name, k_conns, entityOk, connsOk, conv1Ok, conv2Ok) IN
         /\ k_call' = Connected("connect_composio_app", app_name, <<r.attempt>>)
         /\ k_conns' = r.conns
    /\ UNCHANGED notKn

SetupConnections ==
    /\ k_call.pc = "idle"
    /\ \E lookupOk \in [1..Len(setup_apps) -> BOOLEAN], conv1Ok \in [1..Len(setup_apps) -> BOOLEAN] :
         LET r == setup_connections(1, k_conns, lookupOk, conv1Ok, <<>>) IN
         /\ k_call' = Connected("setup_connections", "", r.attempts)
         /\ k_conns' = r.conns
    /\ UNCHANGED notKn

V1ConnectApp ==
    /\ k_call.pc = "idle"
    /\ \E app_name \in KNames, lookupOk \in BOOLEAN, conv1Ok \in BOOLEAN :
         LET r == v1_connect_app(app_name, k_conns, lookupOk, conv1Ok) IN
         /\ k_call' = Connected("v1.connect_app", app_name, r.attempts)
         /\ k_conns' = r.conns
    /\ UNCHANGED notKn

KnInit0 ==
    /\ k_conns = <<>>
    /\ k_call = KIdle

KnInitAny ==
    /\ k_conns \in KConnLists
    /\ k_call = KIdle

KnNext ==
    \/ PythonkitCheckConnectionStatus
    \/ CliCheckConnectionStatus
    \/ ManagerCheckConnectionStatus
    \/ ConnectComposioApp
    \/ SetupConnections
    \/ V1ConnectApp

(***************************************************************************)
(* The CLIs serving one query: process_query of cli.py, and                *)
(* create_dynamic_team of ubik_agno.py and of v1/ubik.py with the          *)
(* connection records of the user.                                         *)
(***************************************************************************)
\* agent names in the replies of the selector model to these queries
CqAgentNames == {"gmail", "weather"}

Decision(agents, fs) ==
    JObj(<<"agents", "needs_filesystem">>,
         <<JArr([i \in 1..Len(agents) |-> JStr(agents[i])]), JBool(fs)>>)

\* replies of the selector model: a decision as bare JSON, or no JSON at all
CqReplies ==
    {Content(Render(Decision(l, fs))) :
        l \in UNION {[1..n -> CqAgentNames] : n \in 0..MaxAgents}, fs \in BOOLEAN}
    \cup {Content(<<>>)}

\* needed_agents and needs_filesystem as the caller reads them off a selection
Picked(sel) ==
    [agents |-> DictGet(sel, "agents", JArr(<<>>)),
     needs_filesystem |-> Truthy(DictGet(sel, "needs_filesystem", JBool(FALSE)))]

NoPick == [agents |-> Unset, needs_filesystem |-> FALSE]

\* a team handed to team.arun, and whether the run (or leaving the MCP
\* context around it) raised
TeamRun(team, raised) == [members |-> team, raised |-> raised]

CqIdle == [pc |-> "idle"]

\* cli.py create_dynamic_team: its own selector request, tool_configs, the
\* loop over needed_agents, and the run with or without the filesystem agent
cli_create_dynamic_team(rep, toolsOk, mcpOk, runOk) ==
    LET sel    == smart_agent_selector(rep)
        picked == Picked(sel)
        agents == agents_for(IterItems(picked.agents))
        team   == IF picked.needs_filesystem THEN Append(agents, FilesystemAgent) ELSE agents
    IN  IF sel.t # "obj" THEN [used |-> NoPick, team_runs |-> <<>>, raised |-> TRUE]
        ELSE IF ~toolsOk \/ ~Iterable(picked.agents)
             THEN [used |-> picked, team_runs |-> <<>>, raised |-> TRUE]
        ELSE IF picked.needs_filesystem /\ ~mcpOk
             THEN [used |-> picked, team_runs |-> <<>>, raised |-> TRUE]
        ELSE [used |-> picked, team_runs |-> <<TeamRun(team, ~runOk)>>, raised |-> ~runOk]

\* cli.py process_query up to its call of create_dynamic_team: the selector
\* request whose result it prints
CliProcessQuery ==
    /\ cq.pc = "idle"
    /\ \E query \in Requests, rep \in CqReplies :
         LET sel == smart_agent_selector(rep) IN
         cq' = IF sel.t # "obj" \/ ~Joinable(Picked(sel).agents)
               THEN [pc |-> "done", fn |-> "cli.process_query", query |-> query,
                     requests |-> <<rep>>, reported |-> NoPick, used |-> NoPick,
                     team_runs |-> <<>>, raised |-> TRUE]
               ELSE [pc |-> "selected", fn |-> "cli.process_query", query |-> query,
                     requests |-> <<rep>>, reported |-> Picked(sel), used |-> NoPick,
                     team_runs |-> <<>>, raised |-> FALSE]
    /\ UNCHANGED notCq

\* cli.py process_query: await create_dynamic_team(query, model, toolset)
CliCreateDynamicTeam ==
    /\ cq.pc = "selected"
    /\ \E rep \in CqReplies, toolsOk \in BOOLEAN, mcpOk \in BOOLEAN, runOk \in BOOLEAN :
         LET r == cli_create_dynamic_team(rep, toolsOk, mcpOk, runOk) IN
         cq' = [cq EXCEPT !.pc = "done", !.requests = Append(cq.requests, rep),
                          !.used = r.used, !.team_runs = r.team_runs, !.raised = r.raised]
    /\ UNCHANGED notCq

\* auth_required_agents and app_mapping of check_connections
auth_required_agents == <<"gmail", "calendar", "drive">>

app_mapping == [gmail |-> "gmail", calendar |-> "googlecalendar", drive |-> "googledrive"]

\* connection_status[agent_type] as check_connections computes it
check_connections(agent_type, conns, lookupOk) ==
    IF \E i \in 1..Len(auth_required_agents) : auth_required_agents[i] = agent_type
    THEN lookupOk /\ any_connected(app_mapping[agent_type], conns)
    ELSE TRUE

\* ubik_agno.py main: await create_dynamic_team(user_request, model, toolset)
\* for a user with the connection records k_conns
UbikCreateDynamicTeam ==
    /\ cq.pc = "idle"
    /\ \E query \in Requests, rep \in CqReplies, toolsOk \in BOOLEAN, mcpOk \in BOOLEAN,
          runOk \in BOOLEAN :
         LET r == create_dynamic_team(rep, toolsOk, mcpOk, runOk) IN
         cq' = [pc |-> "done", fn |-> "ubik_agno.create_dynamic_team", query |-> query,
                requests |-> <<rep>>,
                reported |-> [agents |-> r.needed_agents, needs_filesystem |-> r.needs_filesystem],
                used |-> [agents |-> r.needed_agents, needs_filesystem |-> r.needs_filesystem],
                team_runs |-> IF r.cli \in {"completed", "raised_run"}
                              THEN <<TeamRun(r.members, r.cli = "raised_run")>> ELSE <<>>,
                raised |-> r.cli # "completed"]
    /\ UNCHANGED notCq

\* agent_to_app and the keys of TOOL_ACTIONS of v1/ubik.py
agent_to_app ==
    [gmail |-> "gmail", googlecalendar |-> "googlecalendar", googledrive |-> "googledrive",
     weather |-> "weathermap", search |-> "composio_search"]

TOOL_ACTIONS == {"gmail", "googlecalendar", "googledrive", "weathermap", "composio_search"}

\* f"{agent_name.title()} Agent"
v1_agent_name(agent_name) ==
    CASE agent_name = "gmail"          -> "Gmail Agent"
      [] agent_name = "googlecalendar" -> "Googlecalendar Agent"
      [] agent_name = "googledrive"    -> "Googledrive Agent"
      [] agent_name = "weather"        -> "Weather Agent"
      [] agent_name = "search"         -> "Search Agent"
      [] OTHER                         -> agent_name

\* the loop over needed_agents of v1 create_dynamic_team: a name whose app
\* has no TOOL_ACTIONS, or whose get_tools raises, gives no agent
RECURSIVE v1_agents(_, _, _)
v1_agents(items, i, toolsOk) ==
    IF i > Len(items) THEN <<>>
    ELSE LET name == items[i].s
             app  == IF name \in DOMAIN agent_to_app THEN agent_to_app[name] ELSE name
         IN  (IF app \in TOOL_ACTIONS /\ toolsOk[i] THEN <<v1_agent_name(name)>> ELSE <<>>)
             \o v1_agents(items, i + 1, toolsOk)

\* v1/ubik.py create_dynamic_team.  With needs_filesystem the MCP context,
\* the team and its whole run sit in one try; its handler clears
\* needs_filesystem, and the test that follows runs the team without the
\* filesystem agent.
v1_create_dynamic_team(rep, toolsOk, mcpOk, runOk, exitOk, plainOk) ==
    LET sel    == smart_agent_selector(rep)
        picked == Picked(sel)
        agents == v1_agents(IterItems(picked.agents), 1, toolsOk)
        withFs == TeamRun(Append(agents, FilesystemAgent), ~runOk \/ ~exitOk)
        plain  == TeamRun(agents, ~plainOk)
    IN  IF sel.t # "obj" THEN [used |-> NoPick, team_runs |-> <<>>, raised |-> TRUE]
        ELSE IF ~Joinable(picked.agents)
             THEN [used |-> picked, team_runs |-> <<>>, raised |-> TRUE]
        ELSE IF ~picked.needs_filesystem \/ ~mcpOk
             THEN [used |-> picked, team_runs |-> <<plain>>, raised |-> ~plainOk]
        ELSE IF runOk /\ exitOk
             THEN [used |-> picked, team_runs |-> <<withFs>>, raised |-> FALSE]
        ELSE [used |-> picked, team_runs |-> <<withFs, plain>>, raised |-> ~plainOk]

\* v1/ubik.py process_query: await create_dynamic_team(user_request, model, toolset)
V1CreateDynamicTeam ==
    /\ cq.pc = "idle"
    /\ \E query \in Requests, rep \in CqReplies, toolsOk \in [1..MaxAgents -> BOOLEAN],
          mcpOk \in BOOLEAN, runOk \in BOOLEAN, exitOk \in BOOLEAN, plainOk \in BOOLEAN :
         LET r == v1_create_dynamic_team(rep, toolsOk, mcpOk, runOk, exitOk, plainOk) IN
         cq' = [pc |-> "done", fn |-> "v1.create_dynamic_team", query |-> query,
                requests |-> <<rep>>, reported |-> r.used, used |-> r.used,
                team_runs |-> r.team_runs, raised |-> r.raised]
    /\ UNCHANGED notCq

CqInit0 == cq = CqIdle

CqNext ==
    \/ CliProcessQuery
    \/ CliCreateDynamicTeam
    \/ UbikCreateDynamicTeam
    \/ V1CreateDynamicTeam

(***************************************************************************)
(* ago_dynamic_team_builder.py: the agent pool, the team builder and main. *)
(***************************************************************************)
\* the keyword lists of analyze_task_requirements
web_search_words == <<<<"s", "e", "a", "r", "c", "h">>, <<"n", "e", "w", "s">>, <<"l", "a", "t", "e", "s", "t">>, <<"r", "e", "c", "e", "n", "t">>, <<"w", "e", "b">>, <<"o", "n", "l", "i", "n", "e">>>>
financial_words == <<<<"s", "t", "o", "c", "k">>, <<"f", "i", "n", "a", "n", "c", "i", "a", "l">>, <<"m", "a", "r", "k", "e", "t">>, <<"p", "r", "i", "c", "e">>, <<"a", "n", "a", "l", "y", "s", "t">>, <<"t", "i", "c", "k", "e", "r">>, <<"$">>>>
content_words == <<<<"a", "r", "t", "i", "c", "l", "e">>, <<"r", "e", "a", "d">>, <<"d", "o", "c", "u", "m", "e", "n", "t">>, <<"c", "o", "n", "t", "e", "n", "t">>, <<"t", "e", "x", "t">>, <<"u", "r", "l">>>>
github_words == <<<<"g", "i", "t", "h", "u", "b">>, <<"r", "e", "p", "o", "s", "i", "t", "o", "r", "y">>, <<"r", "e", "p", "o">>, <<"c", "o", "d", "e">>, <<"g", "i", "t">>>>
filesystem_words == <<<<"f", "i", "l", "e">>, <<"d", "i", "r", "e", "c", "t", "o", "r", "y">>, <<"l", "o", "c", "a", "l">>, <<"p", "r", "o", "j", "e", "c", "t", " ", "s", "t", "r", "u", "c", "t", "u", "r", "e">>, <<"f", "i", "l", "e", "s", "y", "s", "t", "e", "m">>>>
travel_words == <<<<"t", "r", "a", "v", "e", "l">>, <<"h", "o", "t", "e", "l">>, <<"a", "c", "c", "o", "m", "m", "o", "d", "a", "t", "i", "o", "n">>, <<"a", "i", "r", "b", "n", "b">>, <<"b", "o", "o", "k", "i", "n", "g">>>>

analyze_task_requirements(task) ==
    LET task_lower == lower(task) IN
    [needs_web_search |-> AnyIn(web_search_words, task_lower),
     needs_financial  |-> AnyIn(financial_words, task_lower),
     needs_content    |-> AnyIn(content_words, task_lower),
     needs_github     |-> AnyIn(github_words, task_lower),
     needs_filesystem |-> AnyIn(filesystem_words, task_lower),
     needs_travel     |-> AnyIn(travel_words, task_lower)]

\* the MCP contexts in the order initialize_agents enters them, and the
\* agent each one is the tool of
McpContexts == <<"github", "filesystem", "airbnb">>
McpAgents   == <<"github_analyst", "filesystem_specialist", "travel_specialist">>

EmptyPool == [normal_agents |-> {}, mcp_agents |-> {}, mcp_contexts |-> <<>>]

\* the pool as initialize_agents leaves it when the first 'started' contexts
\* start: it returns after the third, and the __aenter__ of the next one
\* raises out of it otherwise
initialize_agents(started) ==
    [normal_agents |-> {"web_researcher", "financial_analyst"},
     mcp_agents    |-> {McpAgents[i] : i \in 1..started},
     mcp_contexts  |-> SubSeq(McpContexts, 1, started)]

\* the lookups create_team_for_task makes for its requirements, in order
lookups(requirements) ==
    (IF requirements.needs_web_search THEN <<[dict |-> "normal", key |-> "web_researcher"]>> ELSE <<>>)
    \o (IF requirements.needs_financial THEN <<[dict |-> "normal", key |-> "financial_analyst"]>> ELSE <<>>)
    \o (IF requirements.needs_content THEN <<[dict |-> "normal", key |-> "content_analyst"]>> ELSE <<>>)
    \o (IF requirements.needs_github THEN <<[dict |-> "mcp", key |-> "github_analyst"]>> ELSE <<>>)
    \o (IF requirements.needs_filesystem THEN <<[dict |-> "mcp", key |-> "filesystem_specialist"]>> ELSE <<>>)
    \o (IF requirements.needs_travel THEN <<[dict |-> "mcp", key |-> "travel_specialist"]>> ELSE <<>>)

\* pool.normal_agents[key] or pool.mcp_agents[key] finds the key
InPool(pool, lookup) ==
    IF lookup.dict = "normal" THEN lookup.key \in pool.normal_agents
    ELSE lookup.key \in pool.mcp_agents

NoTeam == [asked |-> FALSE, raised |-> FALSE, members |-> <<>>]

\* DynamicTeamBuilder.create_team_for_task: the members of the Team it
\* returns, or the KeyError of the first lookup that finds no agent
create_team_for_task(task, pool) ==
    LET wanted   == lookups(analyze_task_requirements(task))
        fallback == <<[dict |-> "normal", key |-> "web_researcher"]>>
        selected == IF wanted = <<>> THEN fallback ELSE wanted
    IN  IF \E i \in 1..Len(selected) : ~InPool(pool, selected[i])
        THEN [asked |-> TRUE, raised |-> TRUE, members |-> <<>>]
        ELSE [asked |-> TRUE, raised |-> FALSE,
              members |-> [i \in 1..Len(selected) |-> selected[i].key]]

\* the tasks of main
code_task   == <<"A", "n", "a", "l", "y", "z", "e", " ", "t", "h", "e", " ", "G", "i", "t", "H", "u", "b", " ", "r", "e", "p", "o", "s", "i", "t", "o", "r", "y", " ", "s", "t", "r", "u", "c", "t", "u", "r", "e", " ", "a", "n", "d", " ", "l", "o", "c", "a", "l", " ", "p", "r", "o", "j", "e", "c", "t", " ", "f", "i", "l", "e", "s">>
travel_task == <<"F", "i", "n", "d", " ", "a", "c", "c", "o", "m", "m", "o", "d", "a", "t", "i", "o", "n", " ", "o", "p", "t", "i", "o", "n", "s", " ", "i", "n", " ", "S", "a", "n", " ", "F", "r", "a", "n", "c", "i", "s", "c", "o", " ", "f", "o", "r", " ", "2", " ", "p", "e", "o", "p", "l", "e">>

\* words other task strings are made of
TaskWords == {<<"h", "e", "l", "l", "o">>, <<"r", "e", "a", "d">>, <<"s", "t", "o", "c", "k">>, <<"g", "i", "t", "h", "u", "b">>, <<"p", "r", "o", "f", "i", "l", "e">>, <<"T", "r", "a", "v", "e", "l">>}

\* task strings: main's own two, and up to MaxWords words with blanks between
Tasks ==
    {code_task, travel_task}
    \cup {Concat([i \in 1..(2 * Len(ws) - 1) |-> IF i % 2 = 1 THEN ws[(i + 1) \div 2] ELSE <<" ">>]) :
            ws \in UNION {[1..n -> TaskWords] : n \in 1..MaxWords}}

MnStart == [pc |-> "start", entered |-> {}, exited |-> {}, tasks |-> 0, task |-> <<>>,
            team |-> NoTeam, raised |-> FALSE]

\* main: agent_pool = AgentPool(); await agent_pool.initialize_agents().
\* The call is before main's try.
MainInitializeAgents ==
    /\ mn.pc = "start"
    /\ \E started \in 0..Len(McpContexts) :
         /\ ap' = initialize_agents(started)
         /\ mn' = [mn EXCEPT !.entered = {McpContexts[i] : i \in 1..started},
                             !.pc = IF started = Len(McpContexts) THEN "tasks" ELSE "finished",
                             !.raised = started < Len(McpContexts)]
    /\ UNCHANGED notAp

\* main: one example inside the try: create_team_for_task(task), then
\* await team.aprint_response(task, stream=True)
MainTask ==
    /\ mn.pc = "tasks"
    /\ \E task \in Tasks, runOk \in BOOLEAN :
         LET team == create_team_for_task(task, ap)
             failed == team.raised \/ ~runOk
         IN  mn' = [mn EXCEPT !.task = task, !.team = team, !.tasks = mn.tasks + 1,
                              !.raised = failed,
                              !.pc = IF failed \/ mn.tasks + 1 = MainTasks
                                     THEN "cleanup" ELSE "tasks"]
    /\ UNCHANGED ap
    /\ UNCHANGED notAp

\* main's finally: await agent_pool.cleanup(), the loop over
\* mcp_contexts.values(); 'exits' contexts are left before an __aexit__
\* raises out of the loop
MainCleanup ==
    /\ mn.pc = "cleanup"
    /\ \E exits \in 0..Len(ap.mcp_contexts) :
         mn' = [mn EXCEPT !.pc = "finished",
                          !.exited = {ap.mcp_contexts[i] : i \in {j \in 1..Len(ap.mcp_contexts) : j <= exits + 1}},
                          !.raised = mn.raised \/ exits < Len(ap.mcp_contexts)]
    /\ UNCHANGED ap
    /\ UNCHANGED notAp

ApInit0 ==
    /\ ap = EmptyPool
    /\ mn = MnStart

ApNext == MainInitializeAgents \/ MainTask \/ MainCleanup

(***************************************************************************)
(* services/composio.py: SharedContext.update_state.                       *)
(***************************************************************************)
\* the values of WorkflowState
WorkflowState ==
    {"initial", "processing", "fetching_data", "data_fetched", "task_forwarding",
     "task_processing", "task_completed", "completed", "error"}

\* agents and actions update_state is called with
ScAgents  == {"Gmail Agent", "Weather Agent"}
ScActions == {"fetch"}

\* SharedContext(): the field defaults
NewSharedContext ==
    [state |-> "initial", current_agent |-> "None", last_action |-> "None",
     transitions |-> <<>>]

\* SharedContext.update_state: the three assignments, then the transition
\* appended to task.transitions, its from_state read from self.state after
\* the assignment (the timestamp is left out)
update_state(context, new_state, agent, action) ==
    LET assigned == [context EXCEPT !.state = new_state, !.current_agent = agent,
                                    !.last_action = action]
    IN  [assigned EXCEPT !.transitions =
            Append(context.transitions,
                   [from_state |-> assigned.state, to_state |-> new_state,
                    agent |-> agent, action |-> action])]

UpdateState ==
    /\ Len(sc.transitions) < MaxTransitions
    /\ \E new_state \in WorkflowState, agent \in ScAgents, action \in ScActions :
         sc' = update_state(sc, new_state, agent, action)
    /\ UNCHANGED notSc

ScInit0 == sc = NewSharedContext

Init == SelInit /\ KwInit0 /\ SvcInit /\ RunInit /\ MgrInit /\ WkInit /\ CrInit0 /\ StInit0 /\ KnInit0 /\ CqInit0 /\ ApInit0 /\ ScInit0

Next ==
    \/ CreateUser
    \/ ConnectApp
    \/ ConnectReturn
    \/ ExtAuthorize
    \/ ProcessQueryGate
    \/ ProcessQueryTeam
    \/ ProcessQueryRun
    \/ ProcessQuerySave
    \/ ProcessQueryReturn

Spec == Init /\ [][Next]_vars

\* successive chat requests of the registered user
HistGate == process_query_gate(MaxHistRuns, Registered, {QNone})

HistNext ==
    \/ CreateUser
    \/ HistGate
    \/ ProcessQueryTeam
    \/ ProcessQueryRun
    \/ ProcessQuerySave
    \/ ProcessQueryReturn

SpecHist == Init /\ [][HistNext]_vars

SpecConc == Init /\ [][ConcNext]_vars

SpecCancel == Init /\ [][CancelNext]_vars

InitClean ==
    SelInit /\ KwInit0 /\ SvcInit /\ RunInit /\ MgrInit /\ WkInit /\ CrInitAny /\ StInit0 /\ KnInit0 /\ CqInit0 /\ ApInit0 /\ ScInit0

SpecClean == InitClean /\ [][CleanResponse]_vars

InitStream ==
    SelInit /\ KwInit0 /\ SvcInit /\ RunInit /\ MgrInit /\ WkInit /\ CrInit0 /\ StInitAny /\ KnInit0 /\ CqInit0 /\ ApInit0 /\ ScInit0

SpecStream == InitStream /\ [][ConsumeStream]_vars

KwNext == Classify /\ UNCHANGED notKw

InitKw == SelInit /\ KwInitAny /\ SvcInit /\ RunInit /\ MgrInit /\ WkInit /\ CrInit0 /\ StInit0 /\ KnInit0 /\ CqInit0 /\ ApInit0 /\ ScInit0

SpecKw == InitKw /\ [][KwNext]_vars

SelNext == SmartAgentSelector \/ CreateDynamicTeam \/ CliNext

SpecSel == Init /\ [][SelNext]_vars

SpecRun == Init /\ [][RunNext]_vars

SpecMgr == Init /\ [][MgrNext]_vars

InitKn ==
    SelInit /\ KwInit0 /\ SvcInit /\ RunInit /\ MgrInit /\ WkInit /\ CrInit0 /\ StInit0 /\ KnInitAny /\ CqInit0 /\ ApInit0 /\ ScInit0

SpecKn == InitKn /\ [][KnNext]_vars

SpecSc == Init /\ [][UpdateState]_vars

SpecAp == Init /\ [][ApNext]_vars

\* a user with at most one connection record
InitCq ==
    /\ SelInit /\ KwInit0 /\ SvcInit /\ RunInit /\ MgrInit /\ WkInit /\ CrInit0 /\ StInit0 /\ CqInit0 /\ ApInit0 /\ ScInit0
    /\ k_conns \in {conns \in KConnLists : Len(conns) <= 1}
    /\ k_call = KIdle

SpecCq == InitCq /\ [][CqNext]_vars

\* the team was handed to the orchestration engine (team.arun was called)
TeamHanded == cli \in {"completed", "raised_run"}

\* the reply is valid JSON
ValidJson(rep) == ~rep.none /\ json_loads(rep.content).ok

TypeOKSel ==
    /\ cli \in {"idle", "selected", "completed", "raised_selection", "raised_tools",
                 "raised_mcp", "raised_run"}
    /\ needs_filesystem \in BOOLEAN

(***************************************************************************)
(* Claims about the CLI's model strategy (checked under SpecSel).          *)
(***************************************************************************)
\* names the selector's instructions list as available agents
KnownNames == DOMAIN tool_configs \cup {"filesystem"}

\* the value has the shape of a routing decision:
\* {"agents": [string...], "needs_filesystem": bool}
IsDecision(v) ==
    /\ v.t = "obj"
    /\ \E i \in 1..Len(v.keys) : v.keys[i] = "agents"
    /\ \E i \in 1..Len(v.keys) : v.keys[i] = "needs_filesystem"
    /\ DictGet(v, "needs_filesystem", JNull).t = "bool"
    /\ LET a == DictGet(v, "agents", JNull) IN
       a.t = "arr" /\ \A i \in 1..Len(a.items) : a.items[i].t = "str"

\* C1: for every request and every reply of the selector model, the decision
\* smart_agent_selector returns has a non-empty list of domains.  (Stated of
\* the returned values that are decisions at all.)
C1_DecisionNonEmpty ==
    (cli # "idle" /\ IsDecision(selection)) =>
        Len(DictGet(selection, "agents", JNull).items) >= 1

\* C2: for every routing decision (any list of names, either value of
\* needs_filesystem) the team create_dynamic_team hands to the orchestration
\* engine has at least one member.
C2_TeamNeverEmpty ==
    (TeamHanded /\ IsDecision(selection)) => Len(members) >= 1

\* C4: when the reply of the selector model is not valid JSON,
\* smart_agent_selector returns exactly the default decision:
\* agents = ["search"], needs_filesystem = false.
C4_InvalidJsonDefault ==
    (cli # "idle" /\ ~ValidJson(reply)) => selection = DefaultDecision

\* a call of the selector alone whose reply was text that is not JSON
C4_Witness ==
    /\ cli = "selected"
    /\ ~reply.none /\ reply.content # <<>>
    /\ ~ValidJson(reply)
    /\ selection = DefaultDecision

\* the reply is a JSON object that names a domain outside the registry or
\* lacks one of the two fields
Offending(rep) ==
    /\ ValidJson(rep)
    /\ LET v == json_loads(rep.content).val IN
       /\ v.t = "obj"
       /\ \/ ~\E i \in 1..Len(v.keys) : v.keys[i] = "agents"
          \/ ~\E i \in 1..Len(v.keys) : v.keys[i] = "needs_filesystem"
          \/ LET a == DictGet(v, "agents", JArr(<<>>)) IN
             /\ a.t = "arr"
             /\ \E i \in 1..Len(a.items) : a.items[i].s \notin KnownNames

\* C5: a reply that parses as JSON but names an unknown domain or lacks a
\* field is treated as a parse failure: create_dynamic_team then works from
\* the default decision (search, needs_filesystem = false).
C5_OffendingReplyIsDefault ==
    (TeamHanded /\ Offending(reply)) =>
        /\ needed_agents = JArr(<<JStr("search")>>)
        /\ ~needs_filesystem
        /\ members = <<tool_configs["search"]>>

(***************************************************************************)
(* Claims about the keyword strategy (checked under SpecKw).               *)
(***************************************************************************)
KeywordApps == {"gmail", "googlecalendar", "weathermap", "googledrive"}

Range(seq) == {seq[i] : i \in 1..Len(seq)}

\* the keyword set of an app
KeywordSet(app) ==
    CASE app = "gmail"          -> Range(email_words) \cup Range(send_words)
      [] app = "googlecalendar" -> Range(calendar_words)
      [] app = "weathermap"     -> Range(weather_words)
      [] app = "googledrive"    -> Range(drive_words) \cup Range(drive_phrases)

\* word occurs in text, letter case ignored
ContainsCI(word, text) ==
    \E i \in 0..(Len(text) - Len(word)) :
        \A j \in 1..Len(word) : LowerChar(text[i + j]) = LowerChar(word[j])

\* C3: under the keyword strategy an app is required if and only if one of
\* its keywords is a case-insensitive substring of the query; the query
\* "weather" requires exactly the weather app and "check my emails and tell
\* me the weather" exactly gmail and the weather app.
C3_KeywordIff ==
    kw_done =>
        /\ \A app \in KeywordApps :
              (app \in Range(kw_required)) <=>
                  (\E word \in KeywordSet(app) : ContainsCI(word, kw_query))
        /\ Range(kw_required) \subseteq KeywordApps
        /\ kw_query = WeatherQuery => kw_required = <<"weathermap">>
        /\ kw_query = ScenarioQuery => kw_required = <<"gmail", "weathermap">>

\* a query in mixed case was classified: "E" + "mail" names gmail alone
C3_Witness ==
    /\ kw_done
    /\ kw_query = <<"E", "m", "a", "i", "l">>
    /\ kw_required = <<"gmail">>

\* parsing the text of a value gives the value back
RoundTrip == \A v \in SelectorValues : json_loads(Render(v)) = [ok |-> TRUE, val |-> v]

(***************************************************************************)
(* Claims about ComposioService.process_query and the connection gate.     *)
(***************************************************************************)
StepOrder == <<"classify", "gate", "assemble", "run">>

IsPrefix(a, b) == Len(a) <= Len(b) /\ a = SubSeq(b, 1, Len(a))

\* the apps the query of the chat request needs that are not among the
\* connected apps of the user's row
NotConnected ==
    {app \in Range(required_apps(pq.query)) : app \notin Range(db[pq.email].connected_apps)}

\* C6: the steps of process_query happen in the order classify, gate,
\* assemble, run; when an app the query needs is not connected for the user,
\* no team is built, no run is attempted, and the caller gets a failed result
\* (404) whose detail tells the user to connect and names every missing app.
C6_OrderAndBlock ==
    (pq.pc # "idle") =>
        /\ IsPrefix(pq.steps, StepOrder)
        /\ (pq.team # <<>>) => "gate" \in Range(pq.steps)
        /\ (db[pq.email].exists /\ NotConnected # {}) =>
              /\ pq.pc = "done"
              /\ pq.steps = <<"classify", "gate">>
              /\ pq.team = <<>>
              /\ pq.http.status = 404
              /\ pq.http.detail[1] = PleaseConnect
              /\ \A app \in NotConnected : app \in Range(Tail(pq.http.detail))

\* C6: an email-and-weather request of a user with no connected app has been
\* refused, naming gmail and weathermap
C6_Witness ==
    /\ pq.pc = "done"
    /\ pq.query = QBoth
    /\ pq.http = [status |-> 404,
                  detail |-> <<PleaseConnect, "gmail", ", ", "weathermap">>]

\* the user's entity holds an established connection for the app
Authorized(email, app) ==
    \E i \in 1..Len(ext[db[email].entity_id]) :
        /\ ext[db[email].entity_id][i].appName = app
        /\ ext[db[email].entity_id][i].status \in ActiveLiterals

\* C7: process_query runs a query that depends on an authorization-requiring
\* app only if that app's authorization is connected; a pending authorization
\* blocks the query.
C7_RunOnlyIfAuthorized ==
    (pq.pc # "idle" /\ "run" \in Range(pq.steps)) =>
        \A app \in Range(required_apps(pq.query)) :
            is_oauth_app(app) => Authorized(pq.email, app)

\* C8: a query that needs only apps outside the authorization-required set
\* is never blocked by the connection gate.
C8_NonAuthNeverBlocked ==
    (/\ pq.pc = "done"
     /\ db[pq.email].exists
     /\ \A app \in Range(required_apps(pq.query)) : ~is_oauth_app(app))
        => pq.http.status # 404

(***************************************************************************)
(* Claims about the manager's connect_app and the runner's retry loop.     *)
(***************************************************************************)
Initiations(requests) ==
    {i \in 1..Len(requests) :
        requests[i] \in {"initiate_connection(app_name)", "initiate_connection(appName)"}}

\* the connect_app call that has just ended was made for the app of the call
\* before it, and the connection records it found are those the earlier call
\* left; nothing but this call has touched them since
SecondCallInSequence ==
    /\ mc.pc = "done"
    /\ mgr_prev.app_name = mc.app_name
    /\ mgr_prev.status \in {"pending", "connected"}
    /\ mc.before = mgr_prev.conns
    /\ IsPrefix(mc.before, mgr_conns)

\* C9: connect_app is idempotent: a second call in sequence for the same app,
\* with no change in the external service, issues no initiation request and
\* yields the status of the first call.
C9_SecondCallNoInitiation ==
    SecondCallInSequence =>
        /\ Initiations(mc.requests) = {}
        /\ mc.result.status \in {mgr_prev.status, "error"}

\* the backoff delays the claim names, in order
NamedDelays == <<1, 2>>

\* C10: if the team run raises on the first k attempts (k < 3) and succeeds
\* on attempt k+1, run_with_retry returns the response of attempt k+1 after
\* exactly k backoff delays, of 1s, 2s in that order.
C10_RetryThenSuccess ==
    (rr.pc = "returned") =>
        LET k == Len(rr.team_log) - 1 IN
        /\ k \in 0..2
        /\ \A i \in 1..k : rr.team_log[i].out.raised
        /\ rr.result = rr.team_log[k + 1].out
        /\ ~rr.result.raised
        /\ rr.delays = SubSeq(NamedDelays, 1, k)

\* C10: two failures, then the third attempt's response after 1s and 2s
C10_Witness ==
    /\ rr.pc = "returned"
    /\ Len(rr.team_log) = 3
    /\ rr.team_log[1].out.raised /\ rr.team_log[2].out.raised
    /\ rr.result = Returned("done")
    /\ rr.delays = <<1, 2>>

\* every attempt of the run_with_retry call that has just ended raised
AllAttemptsRaised ==
    /\ rr.pc \in {"returned", "raised"}
    /\ Len(rr.team_log) = max_retries
    /\ \A i \in 1..Len(rr.team_log) : rr.team_log[i].out.raised

\* C11: when every one of the 3 attempts raises, run_with_retry gives its
\* caller a failed result carrying the error text and does not propagate the
\* exception.
C11_ExhaustionGivesResult ==
    AllAttemptsRaised => rr.pc = "returned"

(***************************************************************************)
(* Claims about the chat history.                                          *)
(***************************************************************************)
Min(a, b) == IF a < b THEN a ELSE b

\* C12: after every completed process_query call the stored chat_history has
\* at most 5 entries; it holds the most recent entries in completion order,
\* so after more than 5 successive runs exactly the 5 most recent ones (the
\* registered user is the only one whose requests reach the history: entry
\* number n carries timestamp n - 1).
C12_HistoryLastFive ==
    \A e \in Emails :
        LET h == db[e].chat_history IN
        /\ Len(h) <= 5
        /\ e \in Registered =>
              /\ Len(h) = Min(runs, 5)
              /\ \A i \in 1..Len(h) : h[i].timestamp = runs - Len(h) + i - 1

\* C12: seven runs have completed and the history holds the last five
C12_Witness ==
    /\ runs = 7
    /\ pq.pc = "idle"
    /\ \E e \in Registered :
          /\ Len(db[e].chat_history) = 5
          /\ db[e].chat_history[1].timestamp = 2
          /\ db[e].chat_history[5].timestamp = 6

(***************************************************************************)
(* Claims about concurrent requests.                                       *)
(***************************************************************************)
AllCompleted == \A w \in Workers : wq[w].pc \in {"idle", "done"}

\* C13: two concurrent process_query requests for the same user serialize
\* their history writes: once both have completed, the stored history holds
\* the entry of each (below the trim to 5, every entry written so far is
\* still stored).
C13_NoLostUpdate ==
    (AllCompleted /\ runs <= 5) =>
        \A n \in 0..(runs - 1) :
            \E e \in Emails :
                \E i \in 1..Len(db[e].chat_history) : db[e].chat_history[i].timestamp = n

(***************************************************************************)
(* Claims about the manager's retry loop and its results.                  *)
(***************************************************************************)
\* attempts the connect_app call has begun: each begins with the status check
Attempts(requests) ==
    Cardinality({i \in 1..Len(requests) : requests[i] = "check_connection_status"})

\* C14: connect_app makes at most 3 attempts per call and waits a fixed 2
\* seconds between consecutive attempts; a call in which every attempt fails
\* performs exactly 3 attempts and exactly 2 delays.
C14_ThreeAttemptsFixedDelay ==
    (mc.pc # "idle") =>
        /\ Attempts(mc.requests) <= 3
        /\ \A i \in 1..Len(mc.sleeps) : mc.sleeps[i] = 2
        /\ (mc.pc \in {"done", "raised"}) =>
              /\ Len(mc.sleeps) = Attempts(mc.requests) - 1
              /\ (Len(mc.raised) = Attempts(mc.requests)) =>
                    /\ Attempts(mc.requests) = 3
                    /\ mc.sleeps = <<2, 2>>

\* C14: a call has ended after an entity lookup, an initiation and another
\* entity lookup failed
C14_Witness ==
    /\ mc.pc = "done"
    /\ mc.raised = <<"get_entity failed", "initiate_connection(appName) failed",
                     "get_entity failed">>
    /\ mc.sleeps = <<2, 2>>

C16_AuthUrlIffPending ==
    (mc.pc = "done") => (mc.result.status = "pending" <=> mc.result.auth_url # NoUrl)

(***************************************************************************)
(* Claims about clean_response and the response text.                      *)
(***************************************************************************)
\* the internal markers
Markers == {<<"c", "o", "m", "p", "l", "e", "t", "e", "d", " ", "i", "n">>, <<"t", "r", "a", "n", "s", "f", "e", "r", "_", "t", "a", "s", "k", "_", "t", "o", "_", "m", "e", "m", "b", "e", "r">>, <<"_", "f", "e", "t", "c", "h", "_">>}

HasMarker(line) == \E m \in Markers : IsSubstr(m, line)

\* a line without anything but blanks
Blank(line) == \A i \in 1..Len(line) : line[i] = " "

RECURSIVE LStrip(_)
LStrip(line) == IF line # <<>> /\ Head(line) = " " THEN LStrip(Tail(line)) ELSE line

RECURSIVE RStrip(_)
RStrip(line) ==
    IF line # <<>> /\ line[Len(line)] = " " THEN RStrip(SubSeq(line, 1, Len(line) - 1)) ELSE line

\* the lines of the input that contain no marker
OtherLines(text) == SelectSeq(split_lines(text), LAMBDA line : ~HasMarker(line))

NonBlank(lines) == SelectSeq(lines, LAMBDA line : ~Blank(line))

NoMarkerNoRun(out) ==
    /\ \A i \in 1..Len(split_lines(out)) : ~HasMarker(split_lines(out)[i])
    /\ ~IsSubstr(<<NL, NL, NL>>, out)

\* C17 as stated: the output has no line with a marker and no run of three
\* newlines, and its lines are the other lines of the input, in order.
C17_KeepsEveryOtherLine ==
    cr_done => (NoMarkerNoRun(cr_out) /\ split_lines(cr_out) = OtherLines(cr_text))

\* C17 amended: the output has no line with a marker and no run of three
\* newlines, and its non-blank lines are the non-blank other lines of the
\* input, in order; the first has lost its leading and the last its
\* trailing blanks.
C17_KeepsNonBlankLines ==
    cr_done =>
        LET kept == NonBlank(OtherLines(cr_text))
            outl == NonBlank(split_lines(cr_out))
        IN  /\ NoMarkerNoRun(cr_out)
            /\ Len(outl) = Len(kept)
            /\ \A i \in 1..Len(kept) :
                  outl[i] = IF i = 1 /\ i = Len(kept) THEN RStrip(LStrip(kept[i]))
                            ELSE IF i = 1 THEN LStrip(kept[i])
                            ELSE IF i = Len(kept) THEN RStrip(kept[i])
                            ELSE kept[i]

\* C17: a marker line between two other lines has been removed
C17_Witness ==
    /\ cr_done
    /\ cr_text = <<"a", NL>> \o <<"_", "f", "e", "t", "c", "h", "_">> \o <<NL, "b">>
    /\ cr_out = <<"a", NL, "b">>

\* C18: the response text process_query returns and stores is never empty.
C18_ResponseNonEmpty ==
    st_done => st_out.response # <<>>

\* every tool lookup made for a request used the entity id of the request's
\* user, and the toolset of the process still holds it while the team runs
C19_OwnEntity ==
    \A w \in Workers :
        /\ (wq[w].pc # "idle" /\ wq[w].entity_id # "") =>
              wq[w].entity_id = db[wq[w].email].entity_id
        /\ (wq[w].pc \in {"run", "save"}) => wtoolset[w] = db[wq[w].email].entity_id

\* a step that changes the stored record of a user is the last step of a
\* request for that user
C19_OwnRow ==
    \A e \in Emails :
        (db[e].exists /\ db'[e] # db[e]) =>
            \E w \in Workers : wq'[w] # wq[w] /\ wq'[w].pc = "done" /\ wq'[w].email = e

\* C19: requests for different users are independent: under any interleaving
\* of a request for user A with a request for user B, every tool lookup made
\* for A uses A's entity id, and A's request never changes B's stored record.
C19_UsersIndependent == []C19_OwnEntity /\ [][C19_OwnRow]_vars

\* C19: two processes are running the teams of two different users
C19_Witness ==
    /\ wq[1].pc = "run" /\ wq[2].pc = "run"
    /\ wq[1].email # wq[2].email
    /\ wq[1].entity_id # wq[2].entity_id

(***************************************************************************)
(* Claims about cancellation.                                              *)
(***************************************************************************)
\* a step that changes a stored chat history is taken by a request whose
\* stream has been consumed to its end
C20_WriteAfterStream ==
    \A e \in Emails :
        (db'[e].chat_history # db[e].chat_history) =>
            /\ pq.pc # "idle" /\ pq.email = e
            /\ "run" \in Range(pq.steps)
            /\ pq.consumed = Len(pq.stream.chunks)

\* the stored history of the user of a cancelled request is the one the
\* request read at its start
C20_CancelledUnchanged ==
    (pq.pc = "done" /\ pq.http.status = 499) =>
        db[pq.email].chat_history = pq.user.chat_history

CheckFns ==
    {"pythonkit.check_connection_status", "cli.check_connection_status",
     "agno2.check_connection_status"}

\* the status is "active" or "connected", ignoring case
ActiveCI(status) == status_lower(status) \in {"active", "connected"}

\* a status check that got the records from the connector
CheckAnswered == k_call.pc = "done" /\ k_call.fn \in CheckFns /\ k_call.status # "error"

\* C21: when every record of the requested app (names compared ignoring
\* case) has a status that is "active" or "connected" ignoring case, and
\* there is such a record, check_connection_status reports the app connected.
C21_CaseInsensitiveMatch ==
    (/\ CheckAnswered
     /\ Matching(k_call.app_name, k_conns) # {}
     /\ \A i \in Matching(k_call.app_name, k_conns) : ActiveCI(k_conns[i].status))
    => k_call.connected

\* C22: an attempt is never reported as failed after only the first
\* parameter convention of initiate_connection raised: a failed attempt
\* that requested initiate_connection(app_name=...) requested
\* initiate_connection(appName=...) after it.
C22_BothConventionsTried ==
    (k_call.pc = "done") =>
        \A i \in 1..Len(k_call.attempts) :
            LET a == k_call.attempts[i] IN
            (a.failed /\ \E j \in 1..Len(a.requests) : a.requests[j] = Conv1)
            => \E j, k \in 1..Len(a.requests) :
                   j < k /\ a.requests[j] = Conv1 /\ a.requests[k] = Conv2

\* no record carries a status in mixed case
PlainStatuses == \A i \in 1..Len(k_conns) : k_conns[i].status \in {"ACTIVE", "connected", "INITIATED"}

\* C26: check_connection_status reports the app connected exactly when at
\* least one record of the app has an active or connected status, wherever
\* in the list that record stands.
C26_OrderIndependent ==
    (CheckAnswered /\ PlainStatuses) =>
        (k_call.connected <=>
            \E i \in Matching(k_call.app_name, k_conns) : ActiveCI(k_conns[i].status))

(***************************************************************************)
(* Claims about the CLIs serving a query (checked under SpecCq).           *)
(***************************************************************************)
\* C23: cli.py process_query makes exactly one classification request per
\* query, and the selection it reports is the one its team is built from.
C23_OneClassification ==
    (cq.pc = "done" /\ cq.fn = "cli.process_query")
    => /\ Len(cq.requests) = 1
       /\ cq.team_runs # <<>> => cq.reported = cq.used

\* the worker of an agent type is a member of a team that was run
HasWorker(agent_type) ==
    \E i \in 1..Len(cq.team_runs) :
        \E j \in 1..Len(cq.team_runs[i].members) :
            cq.team_runs[i].members[j] = tool_configs[agent_type]

\* C24: the team of ubik_agno.py create_dynamic_team has the worker of an
\* authorization-requiring domain only if the user's records show that
\* domain connected.
C24_WorkerOnlyIfConnected ==
    (cq.pc = "done" /\ cq.fn = "ubik_agno.create_dynamic_team")
    => \A i \in 1..Len(auth_required_agents) :
           HasWorker(auth_required_agents[i])
           => check_connections(auth_required_agents[i], k_conns, TRUE)

\* C27: v1 create_dynamic_team starts at most one run per request.
C27_AtMostOneRun ==
    (cq.pc = "done" /\ cq.fn = "v1.create_dynamic_team") => Len(cq.team_runs) <= 1

(***************************************************************************)
(* Claims about the tool-call log (checked under SpecStream).              *)
(***************************************************************************)
\* tool calls carried by the chunks before chunk i
RECURSIVE CallsBefore(_, _)
CallsBefore(chunks, i) ==
    IF i <= 1 THEN 0 ELSE CallsBefore(chunks, i - 1) + Len(chunks[i - 1].tool_calls)

\* C25: the tool-call log lists the calls in stream order, and the calls
\* of a chunk that names its agent are logged with that agent.
C25_CallsAttributed ==
    st_done =>
        /\ Len(st_out.tool_calls) = CallsBefore(st_stream.chunks, Len(st_stream.chunks) + 1)
        /\ \A i \in 1..Len(st_stream.chunks) :
               \A k \in 1..Len(st_stream.chunks[i].tool_calls) :
                   LET entry == st_out.tool_calls[CallsBefore(st_stream.chunks, i) + k] IN
                   /\ entry.tool = st_stream.chunks[i].tool_calls[k]
                   /\ st_stream.chunks[i].agent # NoAgent => entry.agent = st_stream.chunks[i].agent

(***************************************************************************)
(* Claims about the agent pool and the team builder (checked under SpecAp).*)
(***************************************************************************)
\* C28: a team asked of create_team_for_task is returned, with at least
\* one member: no lookup in the pool fails.
C28_TeamForEveryTask ==
    mn.team.asked => (~mn.team.raised /\ mn.team.members # <<>>)

\* C29: when main has finished, every MCP context that initialize_agents
\* entered has been exited.
C29_ContextsExited ==
    (mn.pc = "finished") => (mn.entered \subseteq mn.exited)

(***************************************************************************)
(* Claims about SharedContext (checked under SpecSc).                      *)
(***************************************************************************)
\* C30: every transition in task.transitions has as from_state the state
\* held before the call that appended it (the initial state for the first,
\* the previous to_state after that), and as to_state the state held after.
C30_TransitionsChain ==
    /\ \A i \in 1..Len(sc.transitions) :
           sc.transitions[i].from_state =
               IF i = 1 THEN NewSharedContext.state ELSE sc.transitions[i - 1].to_state
    /\ sc.transitions # <<>> => sc.transitions[Len(sc.transitions)].to_state = sc.state

====
